---- MODULE Spec2Model ----
(***************************************************************************)
(* Bring-up of the MT7927 WiFi chip: the production driver (src/src) and   *)
(* the polling firmware-load module (src/tests/05_dma_impl/test_fw_load.c) *)
(* as one state machine.  impl selects which of the two programs runs.     *)
(* The host program is a sequential thread (pc, stack); the chip is a set  *)
(* of interleaved hardware actions.                                        *)
(***************************************************************************)
EXTENDS Integers, Sequences, FiniteSets, TLC

(***************************************************************************)
(* Bounds.  Poll loops run min(real budget, PollCap) iterations and rings  *)
(* hold NDesc descriptors (the real sizes are 128..2048).                  *)
(***************************************************************************)
PollCap == 2
NDesc == 3
MaxRegions == 2

VARIABLES
    impl,       \* "driver" (src/src) or "test" (test_fw_load.c)
    hwmode,     \* "async": the DMA engine consumes descriptors in its own time;
                \* "immediate": it consumes them at the doorbell write
    pc,         \* label of the next statement of the host thread
    stack,      \* return labels of the active calls
    phase,      \* number of probe steps already started
    ret,        \* return value of the last function that returned
    i,          \* iteration counter of the active poll loop
    lpctl,      \* MT_CONN_ON_LPCTL: [own_sync, req]
    wfsys,      \* WiFi subsystem reset block: [en, init_done, sw_init_done]
    glo,        \* MT_WFDMA0_GLO_CFG as the set of bits that are set
    ringreg,    \* per hardware ring: [base, cnt, cidx, didx, ext]
    remap,      \* remap block: [l1, l2, backup_l1, backup_l2] and the last translated access
    q,          \* host queue structures: [desc, head, tail, skb]
    descs,      \* descriptor memory of each queue
    dma_buf,    \* scratch DMA buffer of the test module: "null", "live" or "freed"
    freed,      \* DMA addresses of buffers that have been freed or unmapped
    fw,         \* cursor of the firmware download in progress
    mcu,        \* MCU protocol: [seq, wseq, resp, res_q] of the host; pend = commands the
                \* chip has fetched and not answered; rx = contents of the RX buffers
    irq,        \* interrupts: [live, sched, ena] and the bits set in HOST_INT_STA
    sent,       \* history: submissions made on the TX rings, in order
    cfgd,       \* history: rings whose base/count/index the host has written
    extd,       \* history: rings whose extended-control register the host has written
    ev          \* history: bring-up events that have happened so far

env == <<impl, hwmode>>
ctl == <<env, pc, stack, phase, ret, i>>
rest == <<q, descs, dma_buf, freed, fw, mcu, irq, sent, cfgd, extd>>
vars == <<impl, hwmode, pc, stack, phase, ret, i, lpctl, wfsys, glo, ringreg, remap,
          q, descs, dma_buf, freed, fw, mcu, irq, sent, cfgd, extd, ev>>

Min(a, b) == IF a < b THEN a ELSE b

(* Iterations a poll loop with the given budget performs in the model. *)
Budget(n) == Min(n, PollCap)

(***************************************************************************)
(* Hardware rings and their registers.                                     *)
(***************************************************************************)
TxRings == {<<"tx", n>> : n \in 0..16}
RxRings == {<<"rx", n>> : n \in 0..3}
HwRings == TxRings \cup RxRings

mt7927_desc_ring_regs == [base |-> 0, cnt |-> 0, cidx |-> 0, didx |-> 0, ext |-> 0]

(* MT_WFDMA0_GLO_CFG is the set of its bits that are 1.  The two programs agree on the  *)
(* DMA-enable bits and disagree on the clock-gating-disable bit: bit 5 in               *)
(* mt7927_regs.h, bit 30 in test_fw_load.c.                                             *)
MT_WFDMA0_GLO_CFG_TX_DMA_EN == 0
MT_WFDMA0_GLO_CFG_RX_DMA_EN == 2
MT_WFDMA0_GLO_CFG_TX_WB_DDONE == 6
MT_WFDMA0_GLO_CFG_CSR_DISP_BASE_PTR_CHAIN_EN == 15
MT_WFDMA0_GLO_CFG_CLK_GAT_DIS == 5
MT_WFDMA0_GLO_CFG_CLK_GATE_DIS == 30

TX_DMA_EN == MT_WFDMA0_GLO_CFG_TX_DMA_EN
RX_DMA_EN == MT_WFDMA0_GLO_CFG_RX_DMA_EN
GloEn == {TX_DMA_EN, RX_DMA_EN}

(* The bit the running program calls clock-gating disable. *)
ClkGatDis ==
    IF impl = "driver" THEN MT_WFDMA0_GLO_CFG_CLK_GAT_DIS ELSE MT_WFDMA0_GLO_CFG_CLK_GATE_DIS

(* Faulty variant: a disable that leaves TX_DMA_EN set. *)
mt7927_dma_disable_keeps_tx(g) ==
    g \ {MT_WFDMA0_GLO_CFG_RX_DMA_EN, MT_WFDMA0_GLO_CFG_CSR_DISP_BASE_PTR_CHAIN_EN}

(* Bits mt7927_dma_disable clears. *)
mt7927_dma_disable(g) ==
    g \ {MT_WFDMA0_GLO_CFG_TX_DMA_EN, MT_WFDMA0_GLO_CFG_RX_DMA_EN,
         MT_WFDMA0_GLO_CFG_CSR_DISP_BASE_PTR_CHAIN_EN}

(* Bits mt7927_dma_enable sets, in one register write: TX_DMA_EN, RX_DMA_EN, TX_WB_DDONE, *)
(* RX_WB_DDONE (7), FIFO_LITTLE_ENDIAN (12), CLK_GAT_DIS, FIFO_DIS_CHECK (18), CHAIN_EN,  *)
(* DMA_SIZE = 3 (bits 16 and 17).                                                         *)
mt7927_dma_enable_bits ==
    {MT_WFDMA0_GLO_CFG_TX_DMA_EN, MT_WFDMA0_GLO_CFG_RX_DMA_EN, MT_WFDMA0_GLO_CFG_TX_WB_DDONE,
     7, 12, MT_WFDMA0_GLO_CFG_CLK_GAT_DIS, 18, MT_WFDMA0_GLO_CFG_CSR_DISP_BASE_PTR_CHAIN_EN,
     16, 17}

(* PDMA_BT_SIZE = 3 << 4 (bits 4 and 5), TX_WB_DDONE, AXI_BUFRDY_BYP (11),               *)
(* FIFO_LITTLE_ENDIAN (12), RX_WB_DDONE (13), CHAIN_EN, LBK_RX_Q_SEL_EN (20),             *)
(* OMIT_RX_INFO_PFET2 (21), OMIT_TX_INFO (28), CLK_GATE_DIS.                              *)
MT_WFDMA0_GLO_CFG_SETUP ==
    {4, 5, MT_WFDMA0_GLO_CFG_TX_WB_DDONE, 11, 12, 13,
     MT_WFDMA0_GLO_CFG_CSR_DISP_BASE_PTR_CHAIN_EN, 20, 21, 28, MT_WFDMA0_GLO_CFG_CLK_GATE_DIS}

(***************************************************************************)
(* Host queues.  The driver has tx_q[0..3] and rx_q[0..3]; the test module *)
(* has mcu_ring and fwdl_ring.  DMA addresses are small distinct non-zero  *)
(* numbers.                                                                *)
(***************************************************************************)
DriverTxQ == {"tx_q0", "tx_q1", "tx_q2", "tx_q3"}
DriverRxQ == {"rx_q0", "rx_q1", "rx_q2", "rx_q3"}
TestQ == {"mcu_ring", "fwdl_ring"}
QNames == DriverTxQ \cup DriverRxQ \cup TestQ

desc_dma(qn) ==
    CASE qn = "tx_q0" -> 1 [] qn = "tx_q1" -> 2 [] qn = "tx_q2" -> 3 [] qn = "tx_q3" -> 4
      [] qn = "rx_q0" -> 5 [] qn = "rx_q1" -> 6 [] qn = "rx_q2" -> 7 [] qn = "rx_q3" -> 8
      [] qn = "mcu_ring" -> 9 [] qn = "fwdl_ring" -> 10

dma_buf_phys == 11
RxBufAddr == dma_buf_phys + 1
SkbAddr(k) == 16 + k

(* The queue whose descriptor memory starts at DMA address b. *)
QueueAt(b) == CHOOSE qn \in QNames : desc_dma(qn) = b

DescIdx == 0 .. (NDesc - 1)

mt7927_desc == [buf0 |-> 0, buf1 |-> 0, info |-> 0, len |-> 0, last |-> FALSE, done |-> FALSE]

mt7927_queue == [desc |-> "null", head |-> 0, tail |-> 0, skb |-> [k \in DescIdx |-> 0]]

(***************************************************************************)
(* 32-bit register values and bus addresses are pairs <<high 16 bits, low  *)
(* 16 bits>>.                                                              *)
(***************************************************************************)
Zero32 == <<0, 0>>

Lt32(a, b) == a[1] < b[1] \/ (a[1] = b[1] /\ a[2] < b[2])

Add32(a, b) ==
    LET lo == a[2] + b[2]
    IN  <<(a[1] + b[1] + (lo \div 65536)) % 65536, lo % 65536>>

Sub32(a, b) ==
    LET lo == a[2] - b[2]
    IN  <<(a[1] - b[1] - (IF lo < 0 THEN 1 ELSE 0) + 65536) % 65536, (lo + 65536) % 65536>>

CBTOP_GPIO_MODE5_CHIP == <<28672, 21340>>    \* 0x7000535c
CBTOP_GPIO_MODE6_CHIP == <<28672, 21356>>    \* 0x7000536c
MT_HIF_REMAP_L1 == <<21, 20516>>             \* 0x155024
MT_HIF_REMAP_L2 == <<0, 288>>                \* 0x0120
MT_HIF_REMAP_BASE_L1 == <<19, 0>>            \* 0x130000
MT_HIF_REMAP_BASE_L2 == <<6224, 0>>          \* 0x18500000

(* The remap block: MT_HIF_REMAP_L1, MT_HIF_REMAP_L2, the saved values, and of the *)
(* last translated access its address, kind, BAR offset, the registers before, and *)
(* whether the call read or wrote a remap register.  io lists the raw accesses of   *)
(* the last call in program order; inflight holds between the translation of a      *)
(* driver access and its readl/writel, win tells whether that translation wrote a   *)
(* remap-control register, and mixed whether an interrupt-context access has        *)
(* touched a remap-control register or the aperture inside such a gap.              *)
RemapRegs(l1, l2) ==
    [l1 |-> l1, l2 |-> l2, backup_l1 |-> Zero32, backup_l2 |-> Zero32,
     acc |-> Zero32, op |-> "none", bar |-> Zero32, pre_l1 |-> l1, pre_l2 |-> l2,
     touched |-> FALSE, io |-> <<>>, inflight |-> FALSE, win |-> FALSE, mixed |-> FALSE]

(* Test module: point the L1 window at addr, remembering the old register value. *)
reg_map_l1(rm, addr) ==
    [rm EXCEPT !.backup_l1 = rm.l1, !.l1 = <<addr[1], rm.l1[2]>>,
               !.bar = Add32(MT_HIF_REMAP_BASE_L1, <<0, addr[2]>>), !.touched = TRUE,
               !.io = @ \o <<"rd_l1", "wr_l1", "rd_l1">>]

reg_remap_restore(rm) ==
    IF rm.backup_l1 # Zero32
      THEN [rm EXCEPT !.l1 = rm.backup_l1, !.backup_l1 = Zero32, !.touched = TRUE,
                      !.io = @ \o <<"restore_l1">>]
      ELSE rm

(* The readl/writel of a translated access. *)
mt_rr_wr(rm) == [rm EXCEPT !.io = @ \o <<"access">>]

(* Remap state after mt_rr_remap / mt_wr_remap of addr: the L1 window for          *)
(* 0x70000000 <= addr < 0x78000000, the address as BAR offset otherwise.           *)
mt_remap(rm, addr) ==
    IF addr[1] >= 28672 /\ addr[1] < 30720
      THEN reg_remap_restore(mt_rr_wr(reg_map_l1(rm, addr)))
      ELSE mt_rr_wr([rm EXCEPT !.bar = addr])

(* Driver: the fixed mapping table {phys, maps, size}. *)
mt7927_fixed_map ==
    <<
      [phys |-> <<33548, 0>>, maps |-> <<0, 0>>, size |-> <<0, 4096>>],   \* 0x830c0000
      [phys |-> <<21504, 0>>, maps |-> <<0, 8192>>, size |-> <<0, 4096>>],   \* 0x54000000
      [phys |-> <<21760, 0>>, maps |-> <<0, 12288>>, size |-> <<0, 4096>>],   \* 0x55000000
      [phys |-> <<22016, 0>>, maps |-> <<0, 16384>>, size |-> <<0, 4096>>],   \* 0x56000000
      [phys |-> <<22272, 0>>, maps |-> <<0, 20480>>, size |-> <<0, 4096>>],   \* 0x57000000
      [phys |-> <<22528, 0>>, maps |-> <<0, 24576>>, size |-> <<0, 4096>>],   \* 0x58000000
      [phys |-> <<22784, 0>>, maps |-> <<0, 28672>>, size |-> <<0, 4096>>],   \* 0x59000000
      [phys |-> <<33292, 0>>, maps |-> <<0, 32768>>, size |-> <<0, 16384>>],   \* 0x820c0000
      [phys |-> <<33292, 32768>>, maps |-> <<0, 49152>>, size |-> <<0, 8192>>],   \* 0x820c8000
      [phys |-> <<33292, 49152>>, maps |-> <<0, 57344>>, size |-> <<0, 8192>>],   \* 0x820cc000
      [phys |-> <<29699, 0>>, maps |-> <<1, 0>>, size |-> <<0, 4096>>],   \* 0x74030000
      [phys |-> <<33294, 0>>, maps |-> <<2, 0>>, size |-> <<0, 1024>>],   \* 0x820e0000
      [phys |-> <<33294, 4096>>, maps |-> <<2, 1024>>, size |-> <<0, 512>>],   \* 0x820e1000
      [phys |-> <<33294, 8192>>, maps |-> <<2, 2048>>, size |-> <<0, 1024>>],   \* 0x820e2000
      [phys |-> <<33294, 12288>>, maps |-> <<2, 3072>>, size |-> <<0, 1024>>],   \* 0x820e3000
      [phys |-> <<33294, 16384>>, maps |-> <<2, 4096>>, size |-> <<0, 1024>>],   \* 0x820e4000
      [phys |-> <<33294, 20480>>, maps |-> <<2, 5120>>, size |-> <<0, 2048>>],   \* 0x820e5000
      [phys |-> <<33292, 57344>>, maps |-> <<2, 7168>>, size |-> <<0, 512>>],   \* 0x820ce000
      [phys |-> <<33294, 28672>>, maps |-> <<2, 7680>>, size |-> <<0, 512>>],   \* 0x820e7000
      [phys |-> <<33292, 61440>>, maps |-> <<2, 8192>>, size |-> <<0, 4096>>],   \* 0x820cf000
      [phys |-> <<33294, 36864>>, maps |-> <<2, 13312>>, size |-> <<0, 512>>],   \* 0x820e9000
      [phys |-> <<33294, 40960>>, maps |-> <<2, 16384>>, size |-> <<0, 512>>],   \* 0x820ea000
      [phys |-> <<33294, 45056>>, maps |-> <<2, 16896>>, size |-> <<0, 1024>>],   \* 0x820eb000
      [phys |-> <<33294, 49152>>, maps |-> <<2, 17920>>, size |-> <<0, 512>>],   \* 0x820ec000
      [phys |-> <<33294, 53248>>, maps |-> <<2, 18432>>, size |-> <<0, 2048>>],   \* 0x820ed000
      [phys |-> <<33292, 40960>>, maps |-> <<2, 24576>>, size |-> <<0, 8192>>],   \* 0x820ca000
      [phys |-> <<33293, 0>>, maps |-> <<3, 0>>, size |-> <<1, 0>>],   \* 0x820d0000
      [phys |-> <<16384, 0>>, maps |-> <<7, 0>>, size |-> <<1, 0>>],   \* 0x40000000
      [phys |-> <<64, 0>>, maps |-> <<8, 0>>, size |-> <<1, 0>>],   \* 0x00400000
      [phys |-> <<65, 0>>, maps |-> <<9, 0>>, size |-> <<1, 0>>],   \* 0x00410000
      [phys |-> <<33295, 0>>, maps |-> <<10, 0>>, size |-> <<0, 1024>>],   \* 0x820f0000
      [phys |-> <<33295, 4096>>, maps |-> <<10, 1536>>, size |-> <<0, 512>>],   \* 0x820f1000
      [phys |-> <<33295, 8192>>, maps |-> <<10, 2048>>, size |-> <<0, 1024>>],   \* 0x820f2000
      [phys |-> <<33295, 12288>>, maps |-> <<10, 3072>>, size |-> <<0, 1024>>],   \* 0x820f3000
      [phys |-> <<33295, 16384>>, maps |-> <<10, 4096>>, size |-> <<0, 1024>>],   \* 0x820f4000
      [phys |-> <<33295, 20480>>, maps |-> <<10, 5120>>, size |-> <<0, 2048>>],   \* 0x820f5000
      [phys |-> <<33295, 28672>>, maps |-> <<10, 7680>>, size |-> <<0, 512>>],   \* 0x820f7000
      [phys |-> <<33295, 36864>>, maps |-> <<10, 13312>>, size |-> <<0, 512>>],   \* 0x820f9000
      [phys |-> <<33295, 40960>>, maps |-> <<10, 16384>>, size |-> <<0, 512>>],   \* 0x820fa000
      [phys |-> <<33295, 45056>>, maps |-> <<10, 16896>>, size |-> <<0, 1024>>],   \* 0x820fb000
      [phys |-> <<33295, 49152>>, maps |-> <<10, 17920>>, size |-> <<0, 512>>],   \* 0x820fc000
      [phys |-> <<33295, 53248>>, maps |-> <<10, 18432>>, size |-> <<0, 2048>>],   \* 0x820fd000
      [phys |-> <<33292, 16384>>, maps |-> <<10, 32768>>, size |-> <<0, 16384>>],   \* 0x820c4000
      [phys |-> <<33291, 0>>, maps |-> <<10, 57344>>, size |-> <<0, 4096>>],   \* 0x820b0000
      [phys |-> <<32770, 0>>, maps |-> <<11, 0>>, size |-> <<1, 0>>],   \* 0x80020000
      [phys |-> <<33026, 0>>, maps |-> <<12, 0>>, size |-> <<1, 0>>],   \* 0x81020000
      [phys |-> <<31746, 0>>, maps |-> <<13, 0>>, size |-> <<1, 0>>],   \* 0x7c020000
      [phys |-> <<31750, 0>>, maps |-> <<14, 0>>, size |-> <<1, 0>>],   \* 0x7c060000
      [phys |-> <<31744, 0>>, maps |-> <<15, 0>>, size |-> <<1, 0>>],   \* 0x7c000000
      [phys |-> <<28674, 0>>, maps |-> <<31, 0>>, size |-> <<1, 0>>],   \* 0x70020000
      [phys |-> <<31824, 0>>, maps |-> <<6, 0>>, size |-> <<512, 0>>]    \* 0x7c500000
    >>

(* Driver: mt7927_reg_map_l1 saves MT_HIF_REMAP_L1 and points the window at addr. *)
mt7927_reg_map_l1(rm, addr) ==
    [rm EXCEPT !.backup_l1 = rm.l1, !.l1 = <<addr[1], rm.l1[2]>>,
               !.bar = Add32(MT_HIF_REMAP_BASE_L1, <<0, addr[2]>>), !.touched = TRUE,
               !.io = @ \o <<"rd_l1", "rd_l1", "wr_l1", "rd_l1">>]

(* mt7927_reg_map_l2 saves MT_HIF_REMAP_L1 in backup_l2, points L1 at the L2 base *)
(* and writes addr to MT_HIF_REMAP_L2.                                            *)
mt7927_reg_map_l2(rm, addr) ==
    [rm EXCEPT !.backup_l2 = rm.l1, !.l1 = <<MT_HIF_REMAP_BASE_L2[1], rm.l1[2]>>,
               !.l2 = addr, !.bar = MT_HIF_REMAP_BASE_L1, !.touched = TRUE,
               !.io = @ \o <<"rd_l1", "rd_l1", "wr_l1", "wr_l2", "rd_l1">>]

(* mt7927_reg_remap_restore writes each non-zero saved value back and forgets it. *)
mt7927_reg_remap_restore(rm) ==
    LET r1 == IF rm.backup_l1 # Zero32
                THEN [rm EXCEPT !.l1 = rm.backup_l1, !.backup_l1 = Zero32, !.touched = TRUE,
                                !.io = @ \o <<"restore_l1">>]
                ELSE rm
    IN  IF r1.backup_l2 # Zero32
          THEN [r1 EXCEPT !.l2 = r1.backup_l2, !.backup_l2 = Zero32, !.touched = TRUE,
                          !.io = @ \o <<"restore_l2">>]
          ELSE r1

InWindow(addr, e) == ~Lt32(addr, e.phys) /\ Lt32(Sub32(addr, e.phys), e.size)

FixedMapHits(addr) == {k \in 1..Len(mt7927_fixed_map) : InWindow(addr, mt7927_fixed_map[k])}

L1Routed(addr) ==
    \/ addr[1] >= 6144 /\ addr[1] < 6336          \* 0x18000000 .. 0x18c00000
    \/ addr[1] >= 28672 /\ addr[1] < 30720        \* 0x70000000 .. 0x78000000
    \/ addr[1] >= 31744 /\ addr[1] < 31808        \* 0x7c000000 .. 0x7c400000

(* mt7927_reg_addr: the remap state after translating addr; rm.bar is the offset. *)
mt7927_reg_addr(rm, addr) ==
    IF addr[1] < 32                                \* addr < 0x200000
      THEN [rm EXCEPT !.bar = addr]
      ELSE LET r == mt7927_reg_remap_restore(rm)
               hits == FixedMapHits(addr)
           IN  IF hits # {}
                 THEN LET e == mt7927_fixed_map[CHOOSE k \in hits : \A j \in hits : k <= j]
                      IN  [r EXCEPT !.bar = Add32(e.maps, Sub32(addr, e.phys))]
                 ELSE IF L1Routed(addr)
                        THEN mt7927_reg_map_l1(r, addr)
                        ELSE mt7927_reg_map_l2(r, addr)

(* A translated access of kind op to addr took the remap block from rm to post. *)
Accessed(rm, addr, op, post) ==
    [post EXCEPT !.acc = addr, !.op = op, !.pre_l1 = rm.l1, !.pre_l2 = rm.l2]

(* The remap block as a call finds it: no remap register read or written yet. *)
Entered(rm) == [rm EXCEPT !.touched = FALSE, !.io = <<>>]

(***************************************************************************)
(* Calls and returns of the host thread.                                   *)
(***************************************************************************)
Call(entry, resume) ==
    /\ pc' = entry
    /\ stack' = <<resume>> \o stack

Return(v) ==
    /\ ret' = v
    /\ pc' = Head(stack)
    /\ stack' = Tail(stack)

(***************************************************************************)
(* Probe sequences.                                                        *)
(***************************************************************************)
mt7927_pci_probe_steps ==
    <<"read_chip_id", "mt7927_mcu_fw_pmctrl", "mt7927_mcu_drv_pmctrl", "mt7927_wfsys_reset",
      "request_irq", "mt7927_dma_init", "mt7927_mcu_init">>

(* Faulty variant: the subsystem reset ahead of the power-ownership handshake. *)
test_probe_steps_reset_first ==
    <<"verify_chip", "request_firmware", "wfsys_reset", "fw_pmctrl", "drv_pmctrl", "drv_pmctrl",
      "setup_dma_ring", "load_firmware">>

test_probe_steps ==
    <<"verify_chip", "request_firmware", "fw_pmctrl", "drv_pmctrl", "wfsys_reset", "drv_pmctrl",
      "setup_dma_ring", "load_firmware">>

ProbeSteps == IF impl = "driver" THEN mt7927_pci_probe_steps ELSE test_probe_steps

(* Faulty variant: a failed subsystem reset or ownership claim also aborts. *)
FatalSteps_with_handshake ==
    {"request_irq", "mt7927_dma_init", "mt7927_mcu_init", "verify_chip", "request_firmware",
     "setup_dma_ring", "mt7927_wfsys_reset", "mt7927_mcu_drv_pmctrl", "drv_pmctrl"}

(* Steps whose failure makes the probe function fail. *)
FatalSteps ==
    {"request_irq", "mt7927_dma_init", "mt7927_mcu_init", "verify_chip", "request_firmware",
     "setup_dma_ring"}

(***************************************************************************)
(* Firmware images: the sections (address, length) of the patch file and   *)
(* of the RAM file.  Addresses are <<high 16 bits, low 16 bits>>.          *)
(***************************************************************************)
Regions ==
    {[addr |-> <<144, 0>>, len |-> 200],         \* at 0x00900000
     [addr |-> <<512, 0>>, len |-> 8000]}        \* at 0x02000000
PatchImages == {<<[addr |-> <<144, 0>>, len |-> 200]>>}
RamImages == UNION {[1..n -> Regions] : n \in 0..MaxRegions}

(* The software state when the probe function is entered. *)
Constructed ==
    /\ pc = "probe"
    /\ stack = <<>>
    /\ phase = 0
    /\ ret = "OK"
    /\ i = 0
    /\ ringreg = [r \in HwRings |-> mt7927_desc_ring_regs]
    /\ q = [qn \in QNames |-> mt7927_queue]
    /\ descs = [qn \in QNames |-> [k \in DescIdx |-> mt7927_desc]]
    /\ dma_buf = "null"
    /\ freed = {}
    /\ fw = [patch |-> <<>>, ram |-> <<>>, sec |-> 0, left |-> 0, cmd |-> "none", len |-> 0,
             wait |-> FALSE, err |-> "OK", mark |-> 0]
    /\ mcu = [seq |-> 0, wseq |-> 0, resp |-> 0, res_q |-> <<>>, pend |-> <<>>,
              rx |-> [k \in DescIdx |-> [seq |-> 0, st |-> 0]]]
    /\ irq = [live |-> FALSE, sched |-> FALSE, ena |-> FALSE, sta |-> {},
              rd |-> <<>>, ack |-> <<>>, ran |-> {}]
    /\ sent = <<>>
    /\ cfgd = {}
    /\ extd = {}
    /\ ev = {}

Init ==
    /\ impl \in {"driver", "test"}
    /\ hwmode \in {"async", "immediate"}
    /\ lpctl \in [own_sync : BOOLEAN, req : {"none"}]
    /\ wfsys \in [en : {TRUE}, init_done : BOOLEAN, sw_init_done : {FALSE}]
    /\ glo \in SUBSET {TX_DMA_EN, RX_DMA_EN, ClkGatDis}
    /\ remap = RemapRegs(Zero32, Zero32)
    /\ Constructed

Flag(cond, name) == IF cond THEN {name} ELSE {}

(* The probe function: fail on a fatal step's error, else start the next step.  *)
(* The value RX_DMA_EN had when DMA initialisation was entered, and the chip    *)
(* identifier that was read, are remembered until the probe function goes on.   *)
Probe ==
    /\ pc = "probe"
    /\ IF phase > 0 /\ ProbeSteps[phase] \in FatalSteps /\ ret # "OK"
         THEN /\ pc' = CASE ProbeSteps[phase] = "mt7927_mcu_init" -> "mt7927_dma_cleanup"
                          [] ProbeSteps[phase] = "mt7927_dma_init" -> "free_irq"
                          [] OTHER -> "failed"
              /\ stack' = CASE ProbeSteps[phase] = "mt7927_mcu_init" -> <<"free_irq", "failed">>
                             [] ProbeSteps[phase] = "mt7927_dma_init" -> <<"failed">>
                             [] OTHER -> stack
              /\ UNCHANGED phase
         ELSE IF phase < Len(ProbeSteps)
                THEN phase' = phase + 1 /\ Call(ProbeSteps[phase + 1], "probe")
                ELSE pc' = "bound" /\ UNCHANGED <<phase, stack>>
    /\ ev' = ev \ {"rx_on_before", "all_ones"}
    /\ UNCHANGED <<env, ret, i, lpctl, wfsys, glo, ringreg, remap, rest>>

(***************************************************************************)
(* The first register read after the device has been enabled.  A device    *)
(* that does not respond reads as 0xffffffff.                              *)
(***************************************************************************)
ReadValues == {"id", "all_ones"}

(* The test module reads offset 0 and fails with -EIO on 0xffffffff. *)
verify_chip ==
    /\ pc = "verify_chip"
    /\ \E chip_id \in ReadValues :
         /\ IF chip_id = "all_ones" THEN Return("EIO") ELSE Return("OK")
         /\ ev' = ev \cup Flag(chip_id = "all_ones", "all_ones")
    /\ UNCHANGED <<env, phase, i, lpctl, wfsys, glo, ringreg, remap, rest>>

(* The driver stores MT_HW_CHIPID and MT_HW_REV and logs them. *)
read_chip_id ==
    /\ pc = "read_chip_id"
    /\ \E chip_id \in ReadValues :
         ev' = ev \cup Flag(chip_id = "all_ones", "all_ones")
    /\ Return("OK")
    /\ UNCHANGED <<env, phase, i, lpctl, wfsys, glo, ringreg, remap, rest>>

(* request_firmware for the patch file and the RAM file. *)
request_firmware ==
    /\ pc = "request_firmware"
    /\ \E out \in {"ok", "enoent"} :
         IF out = "ok"
           THEN /\ \E p \in PatchImages, r \in RamImages :
                      fw' = [fw EXCEPT !.patch = p, !.ram = r]
                /\ Return("OK")
           ELSE Return("ENOENT") /\ UNCHANGED fw
    /\ UNCHANGED <<env, phase, i, lpctl, wfsys, glo, ringreg, remap,
                   q, descs, dma_buf, freed, mcu, irq, sent, cfgd, extd, ev>>

(***************************************************************************)
(* Power-ownership handshake on MT_CONN_ON_LPCTL.  A write of SET_OWN or   *)
(* CLR_OWN is a request; the chip answers by changing OWN_SYNC.            *)
(***************************************************************************)
HwOwnSync ==
    /\ lpctl.req # "none"
    /\ lpctl' = [own_sync |-> (lpctl.req = "set"), req |-> "none"]
    /\ UNCHANGED <<ctl, wfsys, glo, ringreg, remap, rest, ev>>

(* The poll loop reading the status bit with the opposite polarity. *)
PollOwnSync_inverted(want, budget) ==
    /\ IF lpctl.own_sync # want
         THEN Return("OK") /\ i' = 0
         ELSE IF i + 1 >= Budget(budget)
                THEN Return("ETIMEDOUT") /\ i' = 0
                ELSE i' = i + 1 /\ UNCHANGED <<pc, stack, ret>>
    /\ UNCHANGED <<env, phase, lpctl, wfsys, glo, ringreg, remap, rest>>

(* One iteration of a poll loop on OWN_SYNC: done, next iteration, or timeout. *)
PollOwnSync(want, budget) ==
    /\ IF lpctl.own_sync = want
         THEN Return("OK") /\ i' = 0
         ELSE IF i + 1 >= Budget(budget)
                THEN Return("ETIMEDOUT") /\ i' = 0
                ELSE i' = i + 1 /\ UNCHANGED <<pc, stack, ret>>
    /\ UNCHANGED <<env, phase, lpctl, wfsys, glo, ringreg, remap, rest>>

mt7927_mcu_fw_pmctrl ==
    /\ pc = "mt7927_mcu_fw_pmctrl"
    /\ lpctl' = [lpctl EXCEPT !.req = "set"]
    /\ pc' = "mt7927_mcu_fw_pmctrl_poll"
    /\ i' = 0
    /\ ev' = ev \cup {"gave"}
    /\ UNCHANGED <<env, stack, phase, ret, wfsys, glo, ringreg, remap, rest>>

mt7927_mcu_fw_pmctrl_poll ==
    /\ pc = "mt7927_mcu_fw_pmctrl_poll"
    /\ PollOwnSync(TRUE, 2000)
    /\ UNCHANGED ev

(* The driver returns at once, without writing, when OWN_SYNC is already clear. *)
mt7927_mcu_drv_pmctrl ==
    /\ pc = "mt7927_mcu_drv_pmctrl"
    /\ IF ~lpctl.own_sync
         THEN /\ Return("OK")
              /\ ev' = ev \cup {"hs_done"}
              /\ UNCHANGED <<lpctl, i>>
         ELSE /\ lpctl' = [lpctl EXCEPT !.req = "clr"]
              /\ pc' = "mt7927_mcu_drv_pmctrl_poll"
              /\ i' = 0
              /\ UNCHANGED <<stack, ret, ev>>
    /\ UNCHANGED <<env, phase, wfsys, glo, ringreg, remap, rest>>

mt7927_mcu_drv_pmctrl_poll ==
    /\ pc = "mt7927_mcu_drv_pmctrl_poll"
    /\ PollOwnSync(FALSE, 2000)
    /\ ev' = IF pc' # pc THEN ev \cup {"hs_done"} ELSE ev

fw_pmctrl ==
    /\ pc = "fw_pmctrl"
    /\ lpctl' = [lpctl EXCEPT !.req = "set"]
    /\ pc' = "fw_pmctrl_poll"
    /\ i' = 0
    /\ ev' = ev \cup {"gave"}
    /\ UNCHANGED <<env, stack, phase, ret, wfsys, glo, ringreg, remap, rest>>

fw_pmctrl_poll ==
    /\ pc = "fw_pmctrl_poll"
    /\ PollOwnSync(TRUE, 100)
    /\ UNCHANGED ev

(* The test module always writes CLR_OWN. *)
drv_pmctrl ==
    /\ pc = "drv_pmctrl"
    /\ lpctl' = [lpctl EXCEPT !.req = "clr"]
    /\ pc' = "drv_pmctrl_poll"
    /\ i' = 0
    /\ UNCHANGED <<env, stack, phase, ret, wfsys, glo, ringreg, remap, rest, ev>>

drv_pmctrl_poll ==
    /\ pc = "drv_pmctrl_poll"
    /\ PollOwnSync(FALSE, 100)
    /\ ev' = IF pc' # pc THEN ev \cup {"hs_done"} ELSE ev

(***************************************************************************)
(* WiFi subsystem reset.                                                   *)
(***************************************************************************)
HwInitDone ==
    /\ wfsys.en
    /\ ~wfsys.init_done
    /\ wfsys' = [wfsys EXCEPT !.init_done = TRUE]
    /\ UNCHANGED <<ctl, lpctl, glo, ringreg, remap, rest, ev>>

mt7927_wfsys_reset ==
    /\ pc = "mt7927_wfsys_reset"
    /\ wfsys' = [wfsys EXCEPT !.en = FALSE, !.init_done = FALSE]
    /\ ev' = ev \cup {"rst_start"}
    /\ pc' = "mt7927_wfsys_reset_deassert"
    /\ UNCHANGED <<env, stack, phase, ret, i, lpctl, glo, ringreg, remap, rest>>

mt7927_wfsys_reset_deassert ==
    /\ pc = "mt7927_wfsys_reset_deassert"
    /\ wfsys' = [wfsys EXCEPT !.en = TRUE]
    /\ pc' = "mt7927_wfsys_reset_poll"
    /\ i' = 0
    /\ UNCHANGED <<env, stack, phase, ret, lpctl, glo, ringreg, remap, rest, ev>>

(* The poll loop testing the enable bit it has just set instead of INIT_DONE. *)
mt7927_wfsys_reset_poll_enable_bit ==
    /\ pc = "mt7927_wfsys_reset_poll"
    /\ IF wfsys.en
         THEN Return("OK") /\ i' = 0
         ELSE IF i + 1 >= Budget(50)
                THEN Return("ETIMEDOUT") /\ i' = 0
                ELSE i' = i + 1 /\ UNCHANGED <<pc, stack, ret>>
    /\ ev' = IF pc' # pc THEN ev \cup {"rst_done"} ELSE ev
    /\ UNCHANGED <<env, phase, lpctl, wfsys, glo, ringreg, remap, rest>>

mt7927_wfsys_reset_poll ==
    /\ pc = "mt7927_wfsys_reset_poll"
    /\ IF wfsys.init_done
         THEN Return("OK") /\ i' = 0
         ELSE IF i + 1 >= Budget(50)
                THEN Return("ETIMEDOUT") /\ i' = 0
                ELSE i' = i + 1 /\ UNCHANGED <<pc, stack, ret>>
    /\ ev' = IF pc' # pc THEN ev \cup {"rst_done"} ELSE ev
    /\ UNCHANGED <<env, phase, lpctl, wfsys, glo, ringreg, remap, rest>>

(* GPIO mode registers through the L1 window, then the BT reset pulse. *)
wfsys_reset ==
    /\ pc = "wfsys_reset"
    /\ remap' = LET r == Accessed(remap, CBTOP_GPIO_MODE5_CHIP, "wr",
                                  mt_remap(Entered(remap), CBTOP_GPIO_MODE5_CHIP))
                IN  Accessed(r, CBTOP_GPIO_MODE6_CHIP, "wr",
                             mt_remap(Entered(r), CBTOP_GPIO_MODE6_CHIP))
    /\ ev' = ev \cup {"rst_start"}
    /\ pc' = "wfsys_reset_wf"
    /\ i' = 0
    /\ UNCHANGED <<env, stack, phase, ret, lpctl, wfsys, glo, ringreg, rest>>

(* One assert/de-assert pass on CB_INFRA_RGU_WF_SUBSYS_RST; the code makes two. *)
wfsys_reset_wf ==
    /\ pc = "wfsys_reset_wf"
    /\ wfsys' = [wfsys EXCEPT !.init_done = FALSE]
    /\ IF i + 1 >= 2
         THEN Return("OK") /\ i' = 0 /\ ev' = ev \cup {"rst_done"}
         ELSE i' = i + 1 /\ UNCHANGED <<pc, stack, ret, ev>>
    /\ UNCHANGED <<env, phase, lpctl, glo, ringreg, remap, rest>>

(***************************************************************************)
(* Register writes to the DMA engine.  A write list is applied in program  *)
(* order to s = [glo, ringreg, cfgd, extd, ev]; the history fields record  *)
(* what the configuration register held when each ring register was        *)
(* written.                                                                *)
(***************************************************************************)
(* Base, count, CPU index and DMA index of ring w.r. *)
WrRing(s, w) ==
    [s EXCEPT !.ringreg[w.r] = [@ EXCEPT !.base = w.base, !.cnt = w.cnt, !.cidx = 0, !.didx = 0],
              !.cfgd = @ \cup {w.r},
              !.ev = @ \cup {"ring_wr"}
                       \cup Flag(ClkGatDis \in s.glo, "cfg_with_clk")
                       \cup Flag(s.glo \cap GloEn # {}, "cfg_with_en")
                       \cup Flag(w.r \in s.extd, "cfg_after_ext")]

(* Extended-control (prefetch) register of ring w.r. *)
WrExt(s, w) ==
    [s EXCEPT !.ringreg[w.r] = [@ EXCEPT !.ext = w.v],
              !.extd = @ \cup {w.r},
              !.ev = @ \cup Flag(ClkGatDis \in s.glo /\ w.r \in s.cfgd, "ext_after_clk")]

(* MT_WFDMA0_GLO_CFG. *)
WrGlo(s, w) ==
    [s EXCEPT !.glo = w.v,
              !.ev = @ \cup {"glo_wr"}
                       \cup Flag((w.v \cap GloEn) \ s.glo # {} /\ ClkGatDis \notin w.v,
                                 "en_without_clk")]

(* MT_WFDMA0_RST_DTX_PTR / RST_DRX_PTR: the selected rings drop their pointers. *)
WrRstPtr(s, w) ==
    [s EXCEPT !.ringreg = [r \in HwRings |->
                             IF r \in w.rs THEN [@[r] EXCEPT !.cidx = 0, !.didx = 0] ELSE @[r]]]

HwWrite(s, w) ==
    CASE w.k = "ring" -> WrRing(s, w)
      [] w.k = "ext" -> WrExt(s, w)
      [] w.k = "glo" -> WrGlo(s, w)
      [] w.k = "rst_ptr" -> WrRstPtr(s, w)

RECURSIVE HwWrites(_, _)
HwWrites(s, ws) == IF ws = <<>> THEN s ELSE HwWrites(HwWrite(s, Head(ws)), Tail(ws))

HwNow == [glo |-> glo, ringreg |-> ringreg, cfgd |-> cfgd, extd |-> extd, ev |-> ev]

(* The action's register writes ws, applied to the current hardware state. *)
DoWrites(ws, happened) ==
    LET t == HwWrites(HwNow, ws)
    IN  /\ glo' = t.glo
        /\ ringreg' = t.ringreg
        /\ cfgd' = t.cfgd
        /\ extd' = t.extd
        /\ ev' = t.ev \cup happened

RingCfg(r, base, cnt) == [k |-> "ring", r |-> r, base |-> base, cnt |-> cnt]
ExtCtrl(r, v) == [k |-> "ext", r |-> r, v |-> v]
GloCfg(v) == [k |-> "glo", v |-> v]
RstPtr(rs) == [k |-> "rst_ptr", rs |-> rs]

(***************************************************************************)
(* Driver: mt7927_dma_init and what it calls.                              *)
(***************************************************************************)
DriverRing(qn) ==
    CASE qn = "tx_q0" -> <<"tx", 0>>      \* MT7927_TXQ_BAND0
      [] qn = "tx_q1" -> <<"tx", 5>>      \* MT7927_TXQ_MCU_WM
      [] qn = "tx_q2" -> <<"tx", 4>>      \* MT7927_TXQ_FWDL
      [] qn = "rx_q0" -> <<"rx", 0>>      \* MT7927_RXQ_MCU_WM
      [] qn = "rx_q2" -> <<"rx", 2>>      \* MT7927_RXQ_BAND0

(* The statements of mt7927_dma_init after the initial disable and reset. *)
mt7927_dma_init_plan == <<"tx_q0", "tx_q1", "tx_q2", "ext", "rx_q0", "rx_q2", "enable">>

DmaInitLabel(k) ==
    CASE mt7927_dma_init_plan[k] = "ext" -> "mt7927_dma_init_ext"
      [] mt7927_dma_init_plan[k] = "enable" -> "mt7927_dma_enable"
      [] OTHER -> "mt7927_queue_alloc"

(* mt7927_dma_disable(force), then mt7927_wpdma_reset(force).  When MT_WFDMA0_RST shows *)
(* no reset in progress the driver pulses the logic reset, which may or may not clear  *)
(* MT_WFDMA0_GLO_CFG; when the reset bits are already set nothing but the three bits   *)
(* of mt7927_dma_disable changes.                                                      *)
mt7927_dma_init ==
    /\ pc = "mt7927_dma_init"
    /\ \E g \in {mt7927_dma_disable(glo), {}} :
         DoWrites(<<GloCfg(g), GloCfg(mt7927_dma_disable(g)), RstPtr(HwRings)>>,
                  Flag(RX_DMA_EN \in glo, "rx_on_before"))
    /\ pc' = DmaInitLabel(1)
    /\ i' = 1
    /\ UNCHANGED <<env, stack, phase, ret, lpctl, wfsys, remap,
                   q, descs, dma_buf, freed, fw, mcu, irq, sent>>

(* Descriptor memory as mt7927_queue_alloc leaves it: zeroed, RX buffers attached. *)
mt7927_queue_alloc_descs(qn) ==
    [k \in DescIdx |->
        IF qn \in DriverRxQ
          THEN [mt7927_desc EXCEPT !.buf0 = RxBufAddr, !.len = 2048]
          ELSE mt7927_desc]

mt7927_queue_alloc ==
    /\ pc = "mt7927_queue_alloc"
    /\ LET qn == mt7927_dma_init_plan[i]
       IN \E out \in {"ok", "enomem_desc", "enomem_array"} :
            IF out = "ok"
              THEN /\ q' = [q EXCEPT ![qn] = [mt7927_queue EXCEPT !.desc = "live"]]
                   /\ descs' = [descs EXCEPT ![qn] = mt7927_queue_alloc_descs(qn)]
                   /\ DoWrites(<<RingCfg(DriverRing(qn), desc_dma(qn), NDesc)>>, {})
                   /\ pc' = DmaInitLabel(i + 1)
                   /\ i' = i + 1
                   /\ UNCHANGED ret
              ELSE \* err_free_desc frees the ring but leaves q->desc pointing at it
                   /\ q' = [q EXCEPT ![qn] = [mt7927_queue EXCEPT
                                !.desc = IF out = "enomem_desc" THEN "null" ELSE "dangling"]]
                   /\ ret' = "ENOMEM"
                   /\ pc' = "mt7927_dma_cleanup"
                   /\ i' = 0
                   /\ UNCHANGED <<descs, glo, ringreg, cfgd, extd, ev>>
    /\ UNCHANGED <<env, stack, phase, lpctl, wfsys, remap, dma_buf, freed, fw, mcu, irq, sent>>

mt7927_dma_init_ext ==
    /\ pc = "mt7927_dma_init_ext"
    /\ DoWrites(<<ExtCtrl(<<"tx", 0>>, 4), ExtCtrl(<<"tx", 5>>, 4), ExtCtrl(<<"tx", 4>>, 4)>>, {})
    /\ pc' = DmaInitLabel(i + 1)
    /\ i' = i + 1
    /\ UNCHANGED <<env, stack, phase, ret, lpctl, wfsys, remap,
                   q, descs, dma_buf, freed, fw, mcu, irq, sent>>

mt7927_dma_prefetch ==
    [n \in 1..4 |-> ExtCtrl(<<"rx", n - 1>>, 4)] \o [n \in 1..4 |-> ExtCtrl(<<"tx", n - 1>>, 16)]
      \o <<ExtCtrl(<<"tx", 15>>, 4), ExtCtrl(<<"tx", 16>>, 4)>>

(* Prefetch, pointer reset, one write setting every configuration bit, then the checks. *)
mt7927_dma_enable ==
    /\ pc = "mt7927_dma_enable"
    /\ LET ws == mt7927_dma_prefetch \o
                 <<RstPtr(HwRings), GloCfg(glo \cup mt7927_dma_enable_bits)>>
           t == HwWrites(HwNow, ws)
           ok == t.glo \cap GloEn # {} /\ t.ringreg[<<"tx", 5>>].base # 0
       IN /\ DoWrites(ws, Flag(ok, "dma_ok"))
          /\ IF ok
               THEN Return("OK")
               ELSE ret' = "EIO" /\ pc' = "mt7927_dma_cleanup" /\ UNCHANGED stack
    /\ i' = 0
    /\ UNCHANGED <<env, phase, lpctl, wfsys, remap, q, descs, dma_buf, freed, fw, mcu, irq, sent>>

(* Addresses of the buffers mt7927_queue_free releases for queue qn. *)
mt7927_queue_free(qn) ==
    IF q[qn].desc = "null" THEN {}
    ELSE {desc_dma(qn)} \cup {SkbAddr(q[qn].skb[k]) : k \in {x \in DescIdx : q[qn].skb[x] # 0}}

(* Disable DMA, free all eight queues, return to the caller with ret untouched. *)
(* The logic reset of mt7927_dma_disable may or may not clear the pending        *)
(* interrupt status.                                                             *)
mt7927_dma_cleanup ==
    /\ pc = "mt7927_dma_cleanup"
    /\ DoWrites(<<GloCfg(mt7927_dma_disable(glo))>>,
                Flag(\E qn \in DriverTxQ \cup DriverRxQ : q[qn].desc = "dangling", "double_free"))
    /\ freed' = freed \cup UNION {mt7927_queue_free(qn) : qn \in DriverTxQ \cup DriverRxQ}
    /\ q' = [qn \in QNames |-> IF qn \in TestQ THEN q[qn] ELSE mt7927_queue]
    /\ \E cleared \in BOOLEAN : irq' = IF cleared THEN [irq EXCEPT !.sta = {}] ELSE irq
    /\ pc' = Head(stack)
    /\ stack' = Tail(stack)
    /\ UNCHANGED <<env, phase, ret, i, lpctl, wfsys, remap, descs, dma_buf, fw, mcu, sent>>

(***************************************************************************)
(* Test module: setup_dma_ring.                                            *)
(***************************************************************************)
setup_dma_ring_descs == [k \in DescIdx |-> [mt7927_desc EXCEPT !.done = TRUE]]

(* Three allocations; a failure returns at once and keeps what was allocated. *)
setup_dma_ring ==
    /\ pc = "setup_dma_ring"
    /\ \E out \in {"ok", "enomem_mcu", "enomem_fwdl", "enomem_buf"} :
         /\ q' = [q EXCEPT !["mcu_ring"].desc = IF out = "enomem_mcu" THEN "null" ELSE "live",
                            !["fwdl_ring"].desc = IF out \in {"enomem_mcu", "enomem_fwdl"}
                                                   THEN "null" ELSE "live"]
         /\ descs' = [descs EXCEPT
                        !["mcu_ring"] = IF out = "enomem_mcu" THEN @ ELSE setup_dma_ring_descs,
                        !["fwdl_ring"] = IF out \in {"enomem_mcu", "enomem_fwdl"}
                                          THEN @ ELSE setup_dma_ring_descs]
         /\ dma_buf' = IF out = "ok" THEN "live" ELSE "null"
         /\ IF out = "ok"
              THEN pc' = "setup_dma_ring_rings" /\ UNCHANGED <<stack, ret>>
              ELSE Return("ENOMEM")
    /\ ev' = ev \cup Flag(RX_DMA_EN \in glo, "rx_on_before")
    /\ UNCHANGED <<env, phase, i, lpctl, wfsys, glo, ringreg, remap, freed, fw, mcu, irq,
                   sent, cfgd, extd>>

(* GLO_CFG cleared, unused rings 0..14, ring 15, ring 16, their prefetch, pointer reset. *)
setup_dma_ring_rings ==
    /\ pc = "setup_dma_ring_rings"
    /\ DoWrites(<<GloCfg({})>>
                \o [n \in 1..15 |-> RingCfg(<<"tx", n - 1>>, desc_dma("mcu_ring"), 1)]
                \o <<RingCfg(<<"tx", 15>>, desc_dma("mcu_ring"), NDesc),
                     RingCfg(<<"tx", 16>>, desc_dma("fwdl_ring"), NDesc),
                     ExtCtrl(<<"tx", 15>>, 4), ExtCtrl(<<"tx", 16>>, 4),
                     RstPtr(TxRings)>>, {})
    /\ pc' = "setup_dma_ring_glo"
    /\ UNCHANGED <<env, stack, phase, ret, i, lpctl, wfsys, remap,
                   q, descs, dma_buf, freed, fw, mcu, irq, sent>>

setup_dma_ring_glo ==
    /\ pc = "setup_dma_ring_glo"
    /\ DoWrites(<<GloCfg(MT_WFDMA0_GLO_CFG_SETUP)>>, {})
    /\ pc' = "setup_dma_ring_enable"
    /\ UNCHANGED <<env, stack, phase, ret, i, lpctl, wfsys, remap,
                   q, descs, dma_buf, freed, fw, mcu, irq, sent>>

(* TX DMA only: RX_DMA_EN stays clear. *)
setup_dma_ring_enable ==
    /\ pc = "setup_dma_ring_enable"
    /\ DoWrites(<<GloCfg(MT_WFDMA0_GLO_CFG_SETUP \cup {MT_WFDMA0_GLO_CFG_TX_DMA_EN})>>, {"dma_ok"})
    /\ Return("OK")
    /\ UNCHANGED <<env, phase, i, lpctl, wfsys, remap,
                   q, descs, dma_buf, freed, fw, mcu, irq, sent>>

(***************************************************************************)
(* DMA engine: TX descriptors.                                             *)
(***************************************************************************)
FW_CHUNK_SIZE == 4096
sizeof_mt7927_mcu_txd == 64

(* A TX descriptor as the submit paths fill it: buffer, length, LAST_SEC0, DMA_DONE clear. *)
TxDesc(buf, len) ==
    [buf0 |-> buf, buf1 |-> 0, info |-> 0, len |-> len, last |-> TRUE, done |-> FALSE]

(* The engine fetches at the doorbell write when it runs in immediate mode. *)
Immediate(r) == hwmode = "immediate" /\ TX_DMA_EN \in glo /\ ringreg[r].base # 0

(* What the chip does with a fetched descriptor d of ring r: the TX-done bit of  *)
(* the ring is raised, and a command on the driver's MCU ring awaits its answer. *)
FetchedIrq(r) == [irq EXCEPT !.sta = @ \cup {<<"tx_done", r[2]>>}]

FetchedMcu(m, r, d) ==
    IF impl = "driver" /\ r = <<"tx", 5>> /\ d.buf0 >= SkbAddr(1) /\ d.buf0 <= SkbAddr(Len(sent))
      THEN [m EXCEPT !.pend = Append(@, [seq |-> sent[d.buf0 - SkbAddr(0)].seq,
                                          cmd |-> sent[d.buf0 - SkbAddr(0)].cmd])]
      ELSE m

(* The stores of one submission in program order: the descriptor words, the write *)
(* barrier, then the producer-index register.                                      *)
SubmitWrites_doorbell_early == <<"buf0", "buf1", "cidx", "ctrl", "info", "wmb">>

SubmitWrites == <<"buf0", "buf1", "ctrl", "info", "wmb", "cidx">>

(* Apply the stores ws in order to st = [desc, cidx, seen]; seen is the descriptor *)
(* as memory holds it at the moment the producer index is written.                *)
RECURSIVE WriteInOrder(_, _, _, _)
WriteInOrder(ws, d, head, st) ==
    IF ws = <<>>
      THEN st
      ELSE LET w == Head(ws)
               nxt == CASE w = "buf0" -> [st EXCEPT !.desc.buf0 = d.buf0]
                        [] w = "buf1" -> [st EXCEPT !.desc.buf1 = d.buf1]
                        [] w = "ctrl" -> [st EXCEPT !.desc.len = d.len, !.desc.last = d.last,
                                                    !.desc.done = d.done]
                        [] w = "info" -> [st EXCEPT !.desc.info = d.info]
                        [] w = "cidx" -> [st EXCEPT !.cidx = head, !.seen = st.desc]
                        [] OTHER -> st
           IN  WriteInOrder(Tail(ws), d, head, nxt)

Submitted(r, qn, idx, head, d) ==
    WriteInOrder(SubmitWrites, d, head,
                 [desc |-> descs[qn][idx], cidx |-> ringreg[r].cidx, seen |-> descs[qn][idx]])

(* Write descriptor d at index idx of queue qn, then CIDX of ring r := head. *)
Doorbell(r, qn, idx, head, d) ==
    /\ descs' = [descs EXCEPT ![qn][idx] =
                    LET w == Submitted(r, qn, idx, head, d).desc
                    IN  IF Immediate(r) /\ MT_WFDMA0_GLO_CFG_TX_WB_DDONE \in glo THEN [w EXCEPT !.done = TRUE] ELSE w]
    /\ ringreg' = [ringreg EXCEPT ![r].cidx = Submitted(r, qn, idx, head, d).cidx,
                                  ![r].didx = IF Immediate(r) THEN head ELSE @]
    /\ irq' = IF Immediate(r) THEN FetchedIrq(r) ELSE irq

(* The engine consumes the descriptor at DIDX of an enabled TX ring. *)
HwTxConsume ==
    /\ TX_DMA_EN \in glo
    /\ \E r \in TxRings :
         /\ ringreg[r].base # 0
         /\ ringreg[r].cnt > 0
         /\ ringreg[r].didx # ringreg[r].cidx
         /\ LET qn == QueueAt(ringreg[r].base)
                k == ringreg[r].didx
            IN /\ ringreg' = [ringreg EXCEPT ![r].didx = (k + 1) % ringreg[r].cnt]
               /\ descs' = IF MT_WFDMA0_GLO_CFG_TX_WB_DDONE \in glo /\ q[qn].desc = "live" /\ k \in DescIdx
                             THEN [descs EXCEPT ![qn][k].done = TRUE]
                             ELSE descs
               /\ irq' = FetchedIrq(r)
               /\ mcu' = IF k \in DescIdx THEN FetchedMcu(mcu, r, descs[qn][k]) ELSE mcu
    /\ UNCHANGED <<ctl, lpctl, wfsys, glo, remap, q, dma_buf, freed, fw, sent, cfgd, extd, ev>>

(***************************************************************************)
(* Test module: tx_cleanup, send_mcu_cmd, send_fw_chunk.                   *)
(***************************************************************************)
(* One DIDX read of tx_cleanup(ring, head, flush); then_pc follows the call. *)
tx_cleanup(r, head, flush, then_pc) ==
    IF ringreg[r].didx = head
      THEN pc' = then_pc /\ i' = 0 /\ UNCHANGED ringreg
      ELSE IF i + 1 >= Budget(IF flush THEN 200 ELSE 50)
             THEN /\ pc' = then_pc
                  /\ i' = 0
                  /\ ringreg' = IF flush THEN WrRstPtr(HwNow, RstPtr({r})).ringreg ELSE ringreg
             ELSE i' = i + 1 /\ UNCHANGED <<pc, ringreg>>

(* The completion poll comparing DIDX with the index of the submitted descriptor. *)
PollDidx_stale_head(r, head, then_pc) ==
    IF ringreg[r].didx = (head + NDesc - 1) % NDesc
      THEN pc' = then_pc /\ i' = 0 /\ UNCHANGED ev
      ELSE IF i + 1 >= Budget(100)
             THEN pc' = then_pc /\ i' = 0 /\ ev' = ev \cup {"poll_timeout"}
             ELSE i' = i + 1 /\ UNCHANGED <<pc, ev>>

(* One DIDX read of the completion poll after a doorbell. *)
PollDidx(r, head, then_pc) ==
    IF ringreg[r].didx = head
      THEN pc' = then_pc /\ i' = 0 /\ UNCHANGED ev
      ELSE IF i + 1 >= Budget(100)
             THEN pc' = then_pc /\ i' = 0 /\ ev' = ev \cup {"poll_timeout"}
             ELSE i' = i + 1 /\ UNCHANGED <<pc, ev>>

send_mcu_cmd ==
    /\ pc = "send_mcu_cmd"
    /\ IF sizeof_mt7927_mcu_txd + fw.len > FW_CHUNK_SIZE
         THEN Return("EINVAL") /\ UNCHANGED <<i, ringreg>>
         ELSE /\ tx_cleanup(<<"tx", 15>>, q["mcu_ring"].head, TRUE, "send_mcu_cmd_submit")
              /\ UNCHANGED <<stack, ret>>
    /\ UNCHANGED <<env, phase, lpctl, wfsys, glo, remap, rest, ev>>

send_mcu_cmd_submit ==
    /\ pc = "send_mcu_cmd_submit"
    /\ LET idx == q["mcu_ring"].head
           head == (idx + 1) % NDesc
           total_len == sizeof_mt7927_mcu_txd + fw.len
       IN /\ mcu' = [mcu EXCEPT !.seq = IF (@ + 1) % 16 = 0 THEN 1 ELSE (@ + 1) % 16]
          /\ Doorbell(<<"tx", 15>>, "mcu_ring", idx, head, TxDesc(dma_buf_phys, total_len))
          /\ q' = [q EXCEPT !["mcu_ring"].head = head]
          /\ sent' = Append(sent, [ring |-> 15, cmd |-> fw.cmd, len |-> total_len,
                                   seq |-> mcu'.seq, hdr |-> sizeof_mt7927_mcu_txd,
                                   whole |-> Submitted(<<"tx", 15>>, "mcu_ring", idx, head,
                                                 TxDesc(dma_buf_phys, total_len)).seen
                                             = TxDesc(dma_buf_phys, total_len)])
    /\ ev' = ev \cup {"submit"}
    /\ pc' = "send_mcu_cmd_poll"
    /\ i' = 0
    /\ UNCHANGED <<env, stack, phase, ret, lpctl, wfsys, glo, remap, dma_buf, freed, fw,
                   cfgd, extd>>

send_mcu_cmd_poll ==
    /\ pc = "send_mcu_cmd_poll"
    /\ PollDidx(<<"tx", 15>>, q["mcu_ring"].head, "send_mcu_cmd_clean")
    /\ UNCHANGED <<env, stack, phase, ret, lpctl, wfsys, glo, ringreg, remap, rest>>

send_mcu_cmd_clean ==
    /\ pc = "send_mcu_cmd_clean"
    /\ tx_cleanup(<<"tx", 15>>, q["mcu_ring"].head, TRUE, Head(stack))
    /\ IF pc' # pc
         THEN ret' = "OK" /\ stack' = Tail(stack)
         ELSE UNCHANGED <<ret, stack>>
    /\ UNCHANGED <<env, phase, lpctl, wfsys, glo, remap, rest, ev>>

send_fw_chunk ==
    /\ pc = "send_fw_chunk"
    /\ IF fw.len > FW_CHUNK_SIZE
         THEN Return("EINVAL") /\ UNCHANGED <<i, ringreg>>
         ELSE /\ tx_cleanup(<<"tx", 16>>, q["fwdl_ring"].head, TRUE, "send_fw_chunk_submit")
              /\ UNCHANGED <<stack, ret>>
    /\ UNCHANGED <<env, phase, lpctl, wfsys, glo, remap, rest, ev>>

send_fw_chunk_submit ==
    /\ pc = "send_fw_chunk_submit"
    /\ LET idx == q["fwdl_ring"].head
           head == (idx + 1) % NDesc
       IN /\ Doorbell(<<"tx", 16>>, "fwdl_ring", idx, head, TxDesc(dma_buf_phys, fw.len))
          /\ q' = [q EXCEPT !["fwdl_ring"].head = head]
          /\ sent' = Append(sent, [ring |-> 16, cmd |-> "data", len |-> fw.len, seq |-> 0, hdr |-> 0,
                                   whole |-> Submitted(<<"tx", 16>>, "fwdl_ring", idx, head,
                                                 TxDesc(dma_buf_phys, fw.len)).seen
                                             = TxDesc(dma_buf_phys, fw.len)])
    /\ ev' = ev \cup {"submit"}
    /\ pc' = "send_fw_chunk_poll"
    /\ i' = 0
    /\ UNCHANGED <<env, stack, phase, ret, lpctl, wfsys, glo, remap, dma_buf, freed, fw, mcu,
                   cfgd, extd>>

send_fw_chunk_poll ==
    /\ pc = "send_fw_chunk_poll"
    /\ PollDidx(<<"tx", 16>>, q["fwdl_ring"].head, "send_fw_chunk_clean")
    /\ UNCHANGED <<env, stack, phase, ret, lpctl, wfsys, glo, ringreg, remap, rest>>

send_fw_chunk_clean ==
    /\ pc = "send_fw_chunk_clean"
    /\ tx_cleanup(<<"tx", 16>>, q["fwdl_ring"].head, TRUE, Head(stack))
    /\ IF pc' # pc
         THEN ret' = "OK" /\ stack' = Tail(stack)
         ELSE UNCHANGED <<ret, stack>>
    /\ UNCHANGED <<env, phase, lpctl, wfsys, glo, remap, rest, ev>>

(***************************************************************************)
(* Test module: init_download, load_patch, load_ram, load_firmware.        *)
(***************************************************************************)
(* Command init_download picks for a section at addr (0x200000, 0x900000, 0xe0002800). *)
init_download(addr) ==
    IF addr \in {<<32, 0>>, <<144, 0>>, <<57344, 10240>>}
      THEN "PATCH_START_REQ"
      ELSE "TARGET_ADDRESS_LEN_REQ"

sizeof_init_download_req == 12

load_firmware ==
    /\ pc = "load_firmware"
    /\ IF Len(fw.patch) > 0
         THEN Call("load_patch", "load_firmware_ram")
         ELSE pc' = "load_firmware_ram" /\ UNCHANGED stack
    /\ UNCHANGED <<env, phase, ret, i, lpctl, wfsys, glo, ringreg, remap, rest, ev>>

(* The first section of the patch is announced with init_download. *)
load_patch ==
    /\ pc = "load_patch"
    /\ fw' = [fw EXCEPT !.cmd = init_download(fw.patch[1].addr),
                        !.len = sizeof_init_download_req,
                        !.left = fw.patch[1].len]
    /\ Call("send_mcu_cmd", "load_patch_chunks")
    /\ UNCHANGED <<env, phase, ret, i, lpctl, wfsys, glo, ringreg, remap,
                   q, descs, dma_buf, freed, mcu, irq, sent, cfgd, extd, ev>>

(* while (remaining > 0) send_fw_chunk; then PATCH_FINISH_REQ. *)
load_patch_chunks ==
    /\ pc = "load_patch_chunks"
    /\ IF fw.left > 0
         THEN /\ fw' = [fw EXCEPT !.len = Min(FW_CHUNK_SIZE, fw.left),
                                  !.left = @ - Min(FW_CHUNK_SIZE, fw.left)]
              /\ Call("send_fw_chunk", "load_patch_chunks")
         ELSE /\ fw' = [fw EXCEPT !.cmd = "PATCH_FINISH_REQ", !.len = 0]
              /\ Call("send_mcu_cmd", "load_patch_return")
    /\ UNCHANGED <<env, phase, ret, i, lpctl, wfsys, glo, ringreg, remap,
                   q, descs, dma_buf, freed, mcu, irq, sent, cfgd, extd, ev>>

load_patch_return ==
    /\ pc = "load_patch_return"
    /\ Return("OK")
    /\ UNCHANGED <<env, phase, i, lpctl, wfsys, glo, ringreg, remap, rest, ev>>

load_firmware_ram ==
    /\ pc = "load_firmware_ram"
    /\ fw' = [fw EXCEPT !.sec = 0, !.mark = Len(sent)]
    /\ Call("load_ram", "load_firmware_finish")
    /\ UNCHANGED <<env, phase, ret, i, lpctl, wfsys, glo, ringreg, remap,
                   q, descs, dma_buf, freed, mcu, irq, sent, cfgd, extd, ev>>

(* Head of the region loop: init_download for region fw.sec, or return after the last. *)
load_ram ==
    /\ pc = "load_ram"
    /\ IF fw.sec < Len(fw.ram)
         THEN /\ fw' = [fw EXCEPT !.cmd = init_download(fw.ram[fw.sec + 1].addr),
                                  !.len = sizeof_init_download_req,
                                  !.left = fw.ram[fw.sec + 1].len]
              /\ Call("send_mcu_cmd", "load_ram_chunks")
              /\ UNCHANGED <<ret, ev>>
         ELSE /\ Return("OK")
              /\ ev' = ev \cup {"ram_done"}
              /\ UNCHANGED fw
    /\ UNCHANGED <<env, phase, i, lpctl, wfsys, glo, ringreg, remap,
                   q, descs, dma_buf, freed, mcu, irq, sent, cfgd, extd>>

(* The chunk loop of a region; after it, ten unforced drains unless the region was the last. *)
load_ram_chunks ==
    /\ pc = "load_ram_chunks"
    /\ IF fw.left > 0
         THEN /\ fw' = [fw EXCEPT !.len = Min(FW_CHUNK_SIZE, fw.left),
                                  !.left = @ - Min(FW_CHUNK_SIZE, fw.left)]
              /\ Call("send_fw_chunk", "load_ram_chunks")
              /\ UNCHANGED i
         ELSE /\ fw' = [fw EXCEPT !.sec = @ + 1]
              /\ pc' = IF fw.sec < Len(fw.ram) - 1 THEN "load_ram_drain" ELSE "load_ram"
              /\ i' = 0
              /\ UNCHANGED stack
    /\ UNCHANGED <<env, phase, ret, lpctl, wfsys, glo, ringreg, remap,
                   q, descs, dma_buf, freed, mcu, irq, sent, cfgd, extd, ev>>

(* tx_cleanup(FWDL ring, head, false): reads DIDX, writes nothing. *)
load_ram_drain ==
    /\ pc = "load_ram_drain"
    /\ tx_cleanup(<<"tx", 16>>, q["fwdl_ring"].head, FALSE, "load_ram")
    /\ UNCHANGED <<env, stack, phase, ret, lpctl, wfsys, glo, remap, rest, ev>>

(* load_firmware ends by setting MT_WFSYS_SW_INIT_DONE; nothing is sent or awaited. *)
load_firmware_finish ==
    /\ pc = "load_firmware_finish"
    /\ wfsys' = [wfsys EXCEPT !.sw_init_done = TRUE]
    /\ ev' = ev \cup {"fw_done"}
    /\ Return("OK")
    /\ UNCHANGED <<env, phase, i, lpctl, glo, ringreg, remap, rest>>

(* test_remove: GLO_CFG := 0, then the scratch buffer and both rings are freed. *)
test_remove ==
    /\ pc = "bound"
    /\ impl = "test"
    /\ DoWrites(<<GloCfg({})>>, {"removed"})
    /\ freed' = freed \cup Flag(dma_buf = "live", dma_buf_phys)
                      \cup {desc_dma(qn) : qn \in {x \in TestQ : q[x].desc = "live"}}
    /\ dma_buf' = IF dma_buf = "live" THEN "freed" ELSE dma_buf
    /\ q' = [qn \in QNames |->
               IF qn \in TestQ /\ q[qn].desc = "live" THEN [q[qn] EXCEPT !.desc = "freed"]
               ELSE q[qn]]
    /\ pc' = "removed"
    /\ UNCHANGED <<env, stack, phase, ret, i, lpctl, wfsys, remap, descs, fw, mcu, irq, sent>>

(***************************************************************************)
(* Driver: TX submission, MCU messages, interrupts.                        *)
(***************************************************************************)
MT_MCUQ_WM == "tx_q1"
MT_MCUQ_FWDL == "tx_q2"

(* mt7927_mcu_fill_message: the sequence number used, and the counter after it. *)
mt7927_mcu_fill_message(seq) == [used |-> seq, next |-> (seq + 1) % 16]

(* The full test with the tail slot still usable: head may catch up with tail. *)
TxFull_head_at_tail(qn) == q[qn].head = q[qn].tail /\ q[qn].skb[q[qn].head] # 0

(* mt7927_tx_queue_skb refuses when the ring is full. *)
TxFull(qn) == (q[qn].head + 1) % NDesc = q[qn].tail

(* mt7927_tx_queue_skb on a ring with room: map the skb, fill the descriptor at head, *)
(* advance head, write CIDX.  m is the MCU state after fill_message.                  *)
mt7927_tx_queue_skb(qn, cmd, len, hdr, m) ==
    LET idx == q[qn].head
        head == (idx + 1) % NDesc
        id == Len(sent) + 1
        r == DriverRing(qn)
        d == TxDesc(SkbAddr(id), len + hdr)
        e == [ring |-> r[2], cmd |-> cmd, len |-> len + hdr, seq |-> m.wseq, hdr |-> hdr,
              whole |-> Submitted(r, qn, idx, head, d).seen = d]
    IN /\ Doorbell(r, qn, idx, head, d)
       /\ q' = [q EXCEPT ![qn].head = head, ![qn].skb[idx] = id]
       /\ sent' = Append(sent, e)
       /\ mcu' = IF Immediate(r) /\ r = <<"tx", 5>>
                   THEN [m EXCEPT !.pend = Append(@, [seq |-> e.seq, cmd |-> cmd])]
                   ELSE m
       /\ ev' = ev \cup {"submit"}

(* mt7927_mcu_send_and_get_msg(fw.cmd, fw.len, fw.wait) up to the wait. *)
mt7927_mcu_send_and_get_msg ==
    /\ pc = "mt7927_mcu_send_and_get_msg"
    /\ LET qn == IF fw.cmd = "FW_SCATTER" THEN MT_MCUQ_FWDL ELSE MT_MCUQ_WM
           f == mt7927_mcu_fill_message(mcu.seq)
           m == [mcu EXCEPT !.seq = f.next, !.wseq = f.used]
       IN IF q[qn].desc # "live"
            THEN /\ Return("EINVAL")
                 /\ mcu' = m
                 /\ UNCHANGED <<q, descs, ringreg, irq, sent, ev>>
            ELSE IF TxFull(qn)
                   THEN /\ Return("ENOSPC")
                        /\ mcu' = m
                        /\ UNCHANGED <<q, descs, ringreg, irq, sent, ev>>
                   ELSE /\ mt7927_tx_queue_skb(qn, fw.cmd, fw.len, sizeof_mt7927_mcu_txd, m)
                        /\ IF fw.wait
                             THEN pc' = "mt7927_mcu_wait" /\ UNCHANGED <<stack, ret>>
                             ELSE Return("OK")
    /\ UNCHANGED <<env, phase, i, lpctl, wfsys, glo, remap, dma_buf, freed, fw, cfgd, extd>>

(* wait_event_timeout on the response queue, then the sequence check. *)
mt7927_mcu_wait ==
    /\ pc = "mt7927_mcu_wait"
    /\ IF mcu.res_q = <<>>
         THEN Return("ETIMEDOUT") /\ ev' = ev \cup {"resp_timeout"} /\ UNCHANGED mcu
         ELSE /\ mcu' = [mcu EXCEPT !.res_q = Tail(@), !.resp = Head(mcu.res_q).st]
              /\ Return(IF Head(mcu.res_q).seq # mcu.wseq THEN "EIO" ELSE "OK")
              /\ UNCHANGED ev
    /\ UNCHANGED <<env, phase, i, lpctl, wfsys, glo, ringreg, remap, q, descs, dma_buf, freed,
                   fw, irq, sent, cfgd, extd>>

(* mt7927_mcu_send_firmware(fw.len): header and data in one skb on the FWDL ring. *)
mt7927_mcu_send_firmware ==
    /\ pc = "mt7927_mcu_send_firmware"
    /\ LET f == mt7927_mcu_fill_message(mcu.seq)
           m == [mcu EXCEPT !.seq = f.next, !.wseq = f.used]
       IN IF TxFull(MT_MCUQ_FWDL)
            THEN /\ Return("ENOSPC")
                 /\ mcu' = m
                 /\ UNCHANGED <<q, descs, ringreg, irq, sent, ev>>
            ELSE /\ mt7927_tx_queue_skb(MT_MCUQ_FWDL, "data", fw.len, sizeof_mt7927_mcu_txd, m)
                 /\ Return("OK")
    /\ UNCHANGED <<env, phase, i, lpctl, wfsys, glo, remap, dma_buf, freed, fw, cfgd, extd>>

(* Status byte the chip puts in its answer to a command. *)
RespStatus(cmd) == IF cmd = "PATCH_SEM_CONTROL" THEN {0, 1, 2} ELSE {0}

(* The chip answers the oldest fetched command into the MCU RX ring. *)
HwMcuResponse ==
    /\ mcu.pend # <<>>
    /\ RX_DMA_EN \in glo
    /\ LET r == <<"rx", 0>>
           k == ringreg[r].didx
       IN /\ ringreg[r].base = desc_dma("rx_q0")
          /\ q["rx_q0"].desc = "live"
          /\ ~descs["rx_q0"][k].done
          /\ \E st \in RespStatus(Head(mcu.pend).cmd) :
               mcu' = [mcu EXCEPT !.pend = Tail(@),
                                  !.rx[k] = [seq |-> Head(mcu.pend).seq, st |-> st]]
          /\ descs' = [descs EXCEPT !["rx_q0"][k].done = TRUE]
          /\ ringreg' = [ringreg EXCEPT ![r].didx = (k + 1) % ringreg[r].cnt]
          /\ irq' = [irq EXCEPT !.sta = @ \cup {<<"rx_done", 0>>}]
    /\ UNCHANGED <<ctl, lpctl, wfsys, glo, remap, q, dma_buf, freed, fw, sent, cfgd, extd, ev>>

(* mt7927_tx_complete on s = [q, descs, freed]: release every completed skb from tail on. *)
RECURSIVE mt7927_tx_complete(_, _)
mt7927_tx_complete(s, qn) ==
    LET idx == s.q[qn].tail
    IN IF idx = s.q[qn].head \/ ~s.descs[qn][idx].done
         THEN s
         ELSE mt7927_tx_complete(
                [q |-> [s.q EXCEPT ![qn].tail = (idx + 1) % NDesc, ![qn].skb[idx] = 0],
                 descs |-> [s.descs EXCEPT ![qn][idx] =
                              [@ EXCEPT !.len = 0, !.last = FALSE, !.done = FALSE]],
                 freed |-> s.freed \cup Flag(s.q[qn].skb[idx] # 0, SkbAddr(s.q[qn].skb[idx]))],
                qn)

MT_RX_BUF_SIZE == 2048

(* mt7927_rx_poll on s = [q, descs, ringreg, mcu]: hand completed buffers on, re-arm. *)
RECURSIVE mt7927_rx_poll(_, _, _)
mt7927_rx_poll(s, qn, budget) ==
    LET idx == s.q[qn].tail
    IN IF budget = 0 \/ ~s.descs[qn][idx].done
         THEN s
         ELSE mt7927_rx_poll(
                [q |-> [s.q EXCEPT ![qn].tail = (idx + 1) % NDesc],
                 descs |-> [s.descs EXCEPT ![qn][idx] =
                              [@ EXCEPT !.len = MT_RX_BUF_SIZE, !.last = FALSE, !.done = FALSE]],
                 ringreg |-> [s.ringreg EXCEPT ![DriverRing(qn)].cidx = (idx + 1) % NDesc],
                 mcu |-> IF qn = "rx_q0"
                           THEN [s.mcu EXCEPT !.res_q = Append(@, s.mcu.rx[idx])]
                           ELSE s.mcu],
                qn, budget - 1)

(* Top half: any pending status bit schedules the tasklet and masks the interrupts. *)
mt7927_irq_handler ==
    /\ irq.live
    /\ irq.sta # {}
    /\ ~irq.sched
    /\ irq' = [irq EXCEPT !.sched = TRUE, !.ena = FALSE]
    /\ UNCHANGED <<ctl, lpctl, wfsys, glo, ringreg, remap, q, descs, dma_buf, freed, fw, mcu,
                   sent, cfgd, extd, ev>>

(* The acknowledge of the bottom half with the early return moved ahead of it. *)
mt7927_irq_ack_after_return(intr) == IF intr = {} THEN <<>> ELSE <<intr>>

(* What the bottom half writes to MT_WFDMA0_HOST_INT_STA: the value it read. *)
mt7927_irq_ack(intr) == <<intr>>

(* The queues whose completion handler the bottom half calls for status intr. *)
mt7927_irq_dispatch(intr) ==
    Flag(<<"tx_done", 0>> \in intr, "tx_q0") \cup Flag(<<"tx_done", 15>> \in intr, "tx_q1")
      \cup Flag(<<"tx_done", 16>> \in intr, "tx_q2")
      \cup Flag(<<"rx_done", 0>> \in intr, "rx_q0") \cup Flag(<<"rx_done", 2>> \in intr, "rx_q2")

(* Bottom half: acknowledge, TX completion by status bit, RX poll, unmask.   *)
(* rd, ack and ran keep what a run that read status 0 read, wrote back and   *)
(* handed to completion handlers; a run with a status bit set clears them.   *)
mt7927_irq_tasklet ==
    /\ irq.sched
    /\ LET intr == irq.sta
           run == mt7927_irq_dispatch(intr)
           t0 == [q |-> q, descs |-> descs, freed |-> freed]
           t1 == IF "tx_q0" \in run THEN mt7927_tx_complete(t0, "tx_q0") ELSE t0
           t2 == IF "tx_q1" \in run THEN mt7927_tx_complete(t1, "tx_q1") ELSE t1
           t3 == IF "tx_q2" \in run THEN mt7927_tx_complete(t2, "tx_q2") ELSE t2
           r0 == [q |-> t3.q, descs |-> t3.descs, ringreg |-> ringreg, mcu |-> mcu]
           wm == "rx_q0" \in run
           data == "rx_q2" \in run
           gone == (wm /\ q["rx_q0"].desc # "live") \/ (data /\ q["rx_q2"].desc # "live")
           r1 == IF wm /\ ~gone THEN mt7927_rx_poll(r0, "rx_q0", 16) ELSE r0
           r2 == IF data /\ ~gone THEN mt7927_rx_poll(r1, "rx_q2", 64) ELSE r1
       IN /\ q' = r2.q
          /\ descs' = r2.descs
          /\ ringreg' = r2.ringreg
          /\ mcu' = r2.mcu
          /\ freed' = t3.freed
          /\ irq' = [irq EXCEPT !.sta = IF mt7927_irq_ack(intr) = <<>> THEN @ ELSE {},
                                 !.sched = FALSE, !.ena = (intr # {}),
                                 !.rd = IF intr = {} THEN <<intr>> ELSE <<>>,
                                 !.ack = IF intr = {} THEN mt7927_irq_ack(intr) ELSE <<>>,
                                 !.ran = IF intr = {} THEN run ELSE {}]
          /\ ev' = ev \cup Flag(gone, "rx_poll_null")
    /\ UNCHANGED <<ctl, lpctl, wfsys, glo, remap, dma_buf, fw, sent, cfgd, extd>>

request_irq ==
    /\ pc = "request_irq"
    /\ \E out \in {"OK", "EBUSY"} :
         /\ irq' = [irq EXCEPT !.live = (out = "OK"), !.ena = FALSE]
         /\ Return(out)
    /\ UNCHANGED <<env, phase, i, lpctl, wfsys, glo, ringreg, remap, q, descs, dma_buf, freed,
                   fw, mcu, sent, cfgd, extd, ev>>

(* err_free_irq of the probe function, and the same two calls in mt7927_pci_remove. *)
free_irq ==
    /\ pc = "free_irq"
    /\ irq' = [irq EXCEPT !.live = FALSE, !.sched = FALSE, !.ena = FALSE]
    /\ pc' = Head(stack)
    /\ stack' = Tail(stack)
    /\ UNCHANGED <<env, phase, ret, i, lpctl, wfsys, glo, ringreg, remap, q, descs, dma_buf,
                   freed, fw, mcu, sent, cfgd, extd, ev>>

(* mt7927_pci_remove: interrupts masked, mt7927_mcu_exit, then DMA cleanup and free_irq. *)
mt7927_pci_remove ==
    /\ pc = "bound"
    /\ impl = "driver"
    /\ irq' = [irq EXCEPT !.ena = FALSE]
    /\ mcu' = [mcu EXCEPT !.res_q = <<>>]
    /\ ev' = ev \cup {"removed"}
    /\ pc' = "mt7927_dma_cleanup"
    /\ stack' = <<"free_irq", "removed">>
    /\ UNCHANGED <<env, phase, ret, i, lpctl, wfsys, glo, ringreg, remap, q, descs, dma_buf,
                   freed, fw, sent, cfgd, extd>>

(***************************************************************************)
(* Driver: mt7927_mcu_init and mt7927_load_firmware.                       *)
(***************************************************************************)
MT7927_FW_CHUNK_SIZE == 65536
sizeof_mt7927_fw_scatter == 12

(* Return to the caller with the return value of the call that just returned. *)
ReturnRet ==
    /\ pc' = Head(stack)
    /\ stack' = Tail(stack)
    /\ UNCHANGED ret

(* Set up the arguments of the next MCU message and call the send function. *)
SendMsg(cmd, len, wait, resume) ==
    /\ fw' = [fw EXCEPT !.cmd = cmd, !.len = len, !.wait = wait]
    /\ Call("mt7927_mcu_send_and_get_msg", resume)
    /\ UNCHANGED ret

mt7927_mcu_init ==
    /\ pc = "mt7927_mcu_init"
    /\ Call("mt7927_mcu_drv_pmctrl", "mt7927_mcu_init_regs")
    /\ UNCHANGED <<env, phase, ret, i, lpctl, wfsys, glo, ringreg, remap, rest, ev>>

(* L0S off, firmware mode, interrupts unmasked, then the firmware load. *)
mt7927_mcu_init_regs ==
    /\ pc = "mt7927_mcu_init_regs"
    /\ irq' = [irq EXCEPT !.ena = TRUE]
    /\ Call("mt7927_load_firmware", "mt7927_mcu_init_return")
    /\ UNCHANGED <<env, phase, ret, i, lpctl, wfsys, glo, ringreg, remap, q, descs, dma_buf,
                   freed, fw, mcu, sent, cfgd, extd, ev>>

mt7927_mcu_init_return ==
    /\ pc = "mt7927_mcu_init_return"
    /\ ReturnRet
    /\ UNCHANGED <<env, phase, i, lpctl, wfsys, glo, ringreg, remap, rest, ev>>

(* Both request_firmware calls, then step 1: acquire the patch semaphore. *)
mt7927_load_firmware ==
    /\ pc = "mt7927_load_firmware"
    /\ \E out \in {"ok", "enoent"} :
         IF out = "ok"
           THEN /\ \E p \in PatchImages, r \in RamImages :
                      fw' = [fw EXCEPT !.patch = p, !.ram = r, !.cmd = "PATCH_SEM_CONTROL",
                                       !.len = 4, !.wait = TRUE]
                /\ Call("mt7927_mcu_send_and_get_msg", "mt7927_load_firmware_sem")
                /\ UNCHANGED ret
           ELSE Return("ENOENT") /\ UNCHANGED fw
    /\ UNCHANGED <<env, phase, i, lpctl, wfsys, glo, ringreg, remap,
                   q, descs, dma_buf, freed, mcu, irq, sent, cfgd, extd, ev>>

(* mt7927_mcu_patch_sem_ctrl(get) has returned: READY loads the patch, NOT_READY skips it. *)
mt7927_load_firmware_sem ==
    /\ pc = "mt7927_load_firmware_sem"
    /\ IF ret # "OK"
         THEN ReturnRet /\ UNCHANGED fw
         ELSE IF mcu.resp = 1
                THEN /\ fw' = [fw EXCEPT !.sec = 0, !.left = 0]
                     /\ Call("mt7927_load_patch", "mt7927_load_firmware_patched")
                     /\ UNCHANGED ret
                ELSE IF mcu.resp = 0
                       THEN /\ fw' = [fw EXCEPT !.sec = 0, !.left = 0, !.mark = Len(sent)]
                            /\ Call("mt7927_load_ram", "mt7927_load_firmware_loaded")
                            /\ UNCHANGED ret
                       ELSE Return("EIO") /\ UNCHANGED fw
    /\ UNCHANGED <<env, phase, i, lpctl, wfsys, glo, ringreg, remap,
                   q, descs, dma_buf, freed, mcu, irq, sent, cfgd, extd, ev>>

(* Head of the chunk loop of mt7927_load_patch / mt7927_load_ram over image img. *)
LoadLoop(img, data_pc, done_ev) ==
    IF ret # "OK"
      THEN ReturnRet /\ UNCHANGED <<fw, ev>>
      ELSE IF fw.left > 0
             THEN SendMsg("FW_SCATTER", sizeof_mt7927_fw_scatter, FALSE, data_pc) /\ UNCHANGED ev
             ELSE IF fw.sec < Len(img)
                    THEN /\ fw' = [fw EXCEPT !.sec = @ + 1, !.left = img[fw.sec + 1].len]
                         /\ UNCHANGED <<pc, stack, ret, ev>>
                    ELSE Return("OK") /\ ev' = ev \cup {done_ev} /\ UNCHANGED fw

(* The scatter header has been sent: now the chunk itself. *)
LoadData(loop_pc) ==
    IF ret # "OK"
      THEN ReturnRet /\ UNCHANGED fw
      ELSE /\ fw' = [fw EXCEPT !.len = Min(MT7927_FW_CHUNK_SIZE, fw.left),
                               !.left = @ - Min(MT7927_FW_CHUNK_SIZE, fw.left)]
           /\ Call("mt7927_mcu_send_firmware", loop_pc)
           /\ UNCHANGED ret

mt7927_load_patch ==
    /\ pc = "mt7927_load_patch"
    /\ LoadLoop(fw.patch, "mt7927_load_patch_data", "patch_done")
    /\ UNCHANGED <<env, phase, i, lpctl, wfsys, glo, ringreg, remap,
                   q, descs, dma_buf, freed, mcu, irq, sent, cfgd, extd>>

mt7927_load_patch_data ==
    /\ pc = "mt7927_load_patch_data"
    /\ LoadData("mt7927_load_patch")
    /\ UNCHANGED <<env, phase, i, lpctl, wfsys, glo, ringreg, remap,
                   q, descs, dma_buf, freed, mcu, irq, sent, cfgd, extd, ev>>

mt7927_load_ram ==
    /\ pc = "mt7927_load_ram"
    /\ LoadLoop(fw.ram, "mt7927_load_ram_data", "ram_done")
    /\ UNCHANGED <<env, phase, i, lpctl, wfsys, glo, ringreg, remap,
                   q, descs, dma_buf, freed, mcu, irq, sent, cfgd, extd>>

mt7927_load_ram_data ==
    /\ pc = "mt7927_load_ram_data"
    /\ LoadData("mt7927_load_ram")
    /\ UNCHANGED <<env, phase, i, lpctl, wfsys, glo, ringreg, remap,
                   q, descs, dma_buf, freed, mcu, irq, sent, cfgd, extd, ev>>

(* mt7927_load_patch has returned: step 3, mt7927_mcu_start_patch. *)
mt7927_load_firmware_patched ==
    /\ pc = "mt7927_load_firmware_patched"
    /\ IF ret # "OK"
         THEN /\ fw' = [fw EXCEPT !.err = ret]
              /\ pc' = "err_sem_release"
              /\ UNCHANGED <<stack, ret>>
         ELSE SendMsg("PATCH_FINISH_REQ", 4, TRUE, "mt7927_load_firmware_started")
    /\ UNCHANGED <<env, phase, i, lpctl, wfsys, glo, ringreg, remap,
                   q, descs, dma_buf, freed, mcu, irq, sent, cfgd, extd, ev>>

(* Step 4: release the patch semaphore. *)
mt7927_load_firmware_started ==
    /\ pc = "mt7927_load_firmware_started"
    /\ IF ret # "OK"
         THEN /\ fw' = [fw EXCEPT !.err = ret]
              /\ pc' = "err_sem_release"
              /\ UNCHANGED <<stack, ret>>
         ELSE SendMsg("PATCH_SEM_CONTROL", 4, TRUE, "mt7927_load_firmware_released")
    /\ UNCHANGED <<env, phase, i, lpctl, wfsys, glo, ringreg, remap,
                   q, descs, dma_buf, freed, mcu, irq, sent, cfgd, extd, ev>>

(* The release returns the status byte of the answer; non-zero fails the load. *)
mt7927_load_firmware_released ==
    /\ pc = "mt7927_load_firmware_released"
    /\ IF ret # "OK"
         THEN ReturnRet /\ UNCHANGED fw
         ELSE IF mcu.resp # 0
                THEN Return("POSITIVE") /\ UNCHANGED fw
                ELSE /\ fw' = [fw EXCEPT !.sec = 0, !.left = 0, !.mark = Len(sent)]
                     /\ Call("mt7927_load_ram", "mt7927_load_firmware_loaded")
                     /\ UNCHANGED ret
    /\ UNCHANGED <<env, phase, i, lpctl, wfsys, glo, ringreg, remap,
                   q, descs, dma_buf, freed, mcu, irq, sent, cfgd, extd, ev>>

(* mt7927_load_ram has returned: step 6, mt7927_mcu_start_firmware(dev, 0). *)
mt7927_load_firmware_loaded ==
    /\ pc = "mt7927_load_firmware_loaded"
    /\ IF ret # "OK"
         THEN ReturnRet /\ UNCHANGED fw
         ELSE SendMsg("START_FIRMWARE", 8, TRUE, "mt7927_load_firmware_done")
    /\ UNCHANGED <<env, phase, i, lpctl, wfsys, glo, ringreg, remap,
                   q, descs, dma_buf, freed, mcu, irq, sent, cfgd, extd, ev>>

mt7927_load_firmware_done ==
    /\ pc = "mt7927_load_firmware_done"
    /\ ReturnRet
    /\ ev' = ev \cup Flag(ret = "OK", "fw_done")
    /\ UNCHANGED <<env, phase, i, lpctl, wfsys, glo, ringreg, remap, rest>>

(* err_sem_release: release the semaphore, ignore the outcome, return the first error. *)
err_sem_release ==
    /\ pc = "err_sem_release"
    /\ SendMsg("PATCH_SEM_CONTROL", 4, TRUE, "err_release_ram")
    /\ UNCHANGED <<env, phase, i, lpctl, wfsys, glo, ringreg, remap,
                   q, descs, dma_buf, freed, mcu, irq, sent, cfgd, extd, ev>>

err_release_ram ==
    /\ pc = "err_release_ram"
    /\ Return(fw.err)
    /\ UNCHANGED <<env, phase, i, lpctl, wfsys, glo, ringreg, remap, rest, ev>>

Next ==
    \/ Probe
    \/ verify_chip
    \/ read_chip_id
    \/ request_firmware
    \/ HwOwnSync
    \/ HwInitDone
    \/ mt7927_mcu_fw_pmctrl
    \/ mt7927_mcu_fw_pmctrl_poll
    \/ mt7927_mcu_drv_pmctrl
    \/ mt7927_mcu_drv_pmctrl_poll
    \/ mt7927_wfsys_reset
    \/ mt7927_wfsys_reset_deassert
    \/ mt7927_wfsys_reset_poll
    \/ fw_pmctrl
    \/ fw_pmctrl_poll
    \/ drv_pmctrl
    \/ drv_pmctrl_poll
    \/ wfsys_reset
    \/ wfsys_reset_wf
    \/ mt7927_dma_init
    \/ mt7927_queue_alloc
    \/ mt7927_dma_init_ext
    \/ mt7927_dma_enable
    \/ mt7927_dma_cleanup
    \/ setup_dma_ring
    \/ setup_dma_ring_rings
    \/ setup_dma_ring_glo
    \/ setup_dma_ring_enable
    \/ HwTxConsume
    \/ send_mcu_cmd
    \/ send_mcu_cmd_submit
    \/ send_mcu_cmd_poll
    \/ send_mcu_cmd_clean
    \/ send_fw_chunk
    \/ send_fw_chunk_submit
    \/ send_fw_chunk_poll
    \/ send_fw_chunk_clean
    \/ load_firmware
    \/ load_patch
    \/ load_patch_chunks
    \/ load_patch_return
    \/ load_firmware_ram
    \/ load_ram
    \/ load_ram_chunks
    \/ load_ram_drain
    \/ load_firmware_finish
    \/ test_remove
    \/ mt7927_mcu_send_and_get_msg
    \/ mt7927_mcu_wait
    \/ mt7927_mcu_send_firmware
    \/ HwMcuResponse
    \/ mt7927_irq_handler
    \/ mt7927_irq_tasklet
    \/ request_irq
    \/ free_irq
    \/ mt7927_pci_remove
    \/ mt7927_mcu_init
    \/ mt7927_mcu_init_regs
    \/ mt7927_mcu_init_return
    \/ mt7927_load_firmware
    \/ mt7927_load_firmware_sem
    \/ mt7927_load_patch
    \/ mt7927_load_patch_data
    \/ mt7927_load_ram
    \/ mt7927_load_ram_data
    \/ mt7927_load_firmware_patched
    \/ mt7927_load_firmware_started
    \/ mt7927_load_firmware_released
    \/ mt7927_load_firmware_loaded
    \/ mt7927_load_firmware_done
    \/ err_sem_release
    \/ err_release_ram

Spec == Init /\ [][Next]_vars

(* A pending interrupt is delivered and a scheduled tasklet is run by the kernel: *)
(* weak fairness on the top half and on the bottom half.                         *)
SpecLive ==
    Init /\ [][Next]_vars /\ WF_vars(mt7927_irq_handler) /\ WF_vars(mt7927_irq_tasklet)

(* The probe thread is scheduled whenever it can take a step, and it can take one  *)
(* until it has failed or been removed: weak fairness on the steps of the host     *)
(* thread, written out with that enabling condition; none on the chip.             *)
HostStep ==
    \/ Probe \/ verify_chip \/ read_chip_id \/ request_firmware \/ mt7927_mcu_fw_pmctrl
    \/ mt7927_mcu_fw_pmctrl_poll \/ mt7927_mcu_drv_pmctrl \/ mt7927_mcu_drv_pmctrl_poll
    \/ mt7927_wfsys_reset \/ mt7927_wfsys_reset_deassert \/ mt7927_wfsys_reset_poll
    \/ fw_pmctrl \/ fw_pmctrl_poll \/ drv_pmctrl \/ drv_pmctrl_poll \/ wfsys_reset
    \/ wfsys_reset_wf \/ mt7927_dma_init \/ mt7927_queue_alloc \/ mt7927_dma_init_ext
    \/ mt7927_dma_enable \/ mt7927_dma_cleanup \/ setup_dma_ring
    \/ setup_dma_ring_rings \/ setup_dma_ring_glo \/ setup_dma_ring_enable
    \/ send_mcu_cmd \/ send_mcu_cmd_submit \/ send_mcu_cmd_poll \/ send_mcu_cmd_clean
    \/ send_fw_chunk \/ send_fw_chunk_submit \/ send_fw_chunk_poll
    \/ send_fw_chunk_clean \/ load_firmware \/ load_patch \/ load_patch_chunks
    \/ load_patch_return \/ load_firmware_ram \/ load_ram \/ load_ram_chunks
    \/ load_ram_drain \/ load_firmware_finish \/ test_remove
    \/ mt7927_mcu_send_and_get_msg \/ mt7927_mcu_wait \/ mt7927_mcu_send_firmware
    \/ request_irq \/ free_irq \/ mt7927_pci_remove \/ mt7927_mcu_init
    \/ mt7927_mcu_init_regs \/ mt7927_mcu_init_return \/ mt7927_load_firmware
    \/ mt7927_load_firmware_sem \/ mt7927_load_patch \/ mt7927_load_patch_data
    \/ mt7927_load_ram \/ mt7927_load_ram_data \/ mt7927_load_firmware_patched
    \/ mt7927_load_firmware_started \/ mt7927_load_firmware_released
    \/ mt7927_load_firmware_loaded \/ mt7927_load_firmware_done \/ err_sem_release
    \/ err_release_ram

HostIdle == pc \in {"failed", "removed"}

SpecHost == Init /\ [][Next]_vars /\ ([]<>HostIdle \/ []<><<HostStep>>_vars)

(***************************************************************************)
(* The register translators on their own: any register contents before    *)
(* the call, any sequence of translated reads and writes.                  *)
(***************************************************************************)
RemapL1Values == {Zero32, MT_HIF_REMAP_BASE_L2, <<28672, 4660>>}
RemapL2Values == {Zero32, <<33026, 0>>}

(* Logical addresses handed to mt7927_rr / mt7927_wr. *)
DriverAddrs ==
    {<<13, 17152>>,                \* 0x000d4300  direct
     <<31750, 16>>,                \* 0x7c060010  fixed map (MT_CONN_ON_LPCTL)
     <<64, 5180>>,                 \* 0x0040143c  fixed map (MT_SWDEF_MODE)
     <<31850, 0>>,                 \* 0x7c6a0000  fixed map (remap window, 0x1a0000 in)
     CBTOP_GPIO_MODE5_CHIP,        \* 0x7000535c  L1
     <<6144, 4096>>,               \* 0x18001000  L1
     <<31760, 32>>,                \* 0x7c100020  L1
     <<33536, 256>>,               \* 0x83000100  L2
     <<6400, 8>>}                  \* 0x19000008  L2

(* Addresses handed to mt_rr_remap / mt_wr_remap. *)
TestAddrs ==
    {CBTOP_GPIO_MODE5_CHIP, CBTOP_GPIO_MODE6_CHIP,
     <<15, 320>>}                  \* 0x0f0140 (MT_WFSYS_SW_RST_B), a BAR offset

InitRemap ==
    /\ impl \in {"driver", "test"}
    /\ hwmode = "async"
    /\ lpctl = [own_sync |-> FALSE, req |-> "none"]
    /\ wfsys = [en |-> TRUE, init_done |-> TRUE, sw_init_done |-> FALSE]
    /\ glo = {}
    /\ remap \in {RemapRegs(a, b) : a \in RemapL1Values, b \in RemapL2Values}
    /\ Constructed

(* Registers the interrupt top half and the tasklet access: MT_WFDMA0_HOST_INT_STA, *)
(* MT_WFDMA0_HOST_INT_ENA and, from mt7927_rx_poll, MT_WFDMA0_RX_RING_CIDX.          *)
IrqAddrs_with_pcie_mac ==
    {<<0, 8704>>, <<0, 8708>>, <<0, 9480>>, <<0, 9512>>,
     <<31760, 32>>}                \* 0x7c100020, reached through the L1 window

IrqAddrs ==
    {<<0, 8704>>,                  \* 0x2200  MT_WFDMA0_HOST_INT_STA
     <<0, 8708>>,                  \* 0x2204  MT_WFDMA0_HOST_INT_ENA
     <<0, 9480>>,                  \* 0x2508  MT_WFDMA0_RX_RING_CIDX(0)
     <<0, 9512>>}                  \* 0x2528  MT_WFDMA0_RX_RING_CIDX(2)

(* The remap-control registers and the aperture, as BAR offsets. *)
RemapControl == {MT_HIF_REMAP_L1, MT_HIF_REMAP_L2}

InAperture(bar) == bar[1] = MT_HIF_REMAP_BASE_L1[1]

(* mt7927_rr / mt7927_wr, first half: mt7927_reg_addr translates the address. *)
mt7927_rr ==
    /\ impl = "driver"
    /\ ~remap.inflight
    /\ \E addr \in DriverAddrs :
         LET r == mt7927_reg_addr(Entered(remap), addr)
         IN  remap' = [Accessed(remap, addr, "rr", r) EXCEPT
                          !.inflight = TRUE, !.win = r.touched]
    /\ UNCHANGED <<ctl, lpctl, wfsys, glo, ringreg, rest, ev>>

mt7927_wr ==
    /\ impl = "driver"
    /\ ~remap.inflight
    /\ \E addr \in DriverAddrs :
         LET r == mt7927_reg_addr(Entered(remap), addr)
         IN  remap' = [Accessed(remap, addr, "wr", r) EXCEPT
                          !.inflight = TRUE, !.win = r.touched]
    /\ UNCHANGED <<ctl, lpctl, wfsys, glo, ringreg, rest, ev>>

(* Second half: the readl / writel at the translated offset. *)
readl_writel ==
    /\ impl = "driver"
    /\ remap.inflight
    /\ remap' = [mt_rr_wr(remap) EXCEPT !.inflight = FALSE]
    /\ UNCHANGED <<ctl, lpctl, wfsys, glo, ringreg, rest, ev>>

(* A register access of mt7927_irq_handler or mt7927_irq_tasklet, which preempts the *)
(* host thread at any point: translation and access in one step.                    *)
irq_context_access ==
    /\ impl = "driver"
    /\ \E addr \in IrqAddrs, op \in {"irq_rr", "irq_wr"} :
         LET r == mt7927_reg_addr(Entered(remap), addr)
         IN  remap' = [Accessed(remap, addr, op, r) EXCEPT
                          !.io = IF remap.inflight THEN remap.io ELSE r.io \o <<"access">>,
                          !.mixed = @ \/ /\ remap.inflight /\ remap.win
                                         /\ \/ r.touched
                                            \/ InAperture(r.bar)
                                            \/ r.bar \in RemapControl]
    /\ UNCHANGED <<ctl, lpctl, wfsys, glo, ringreg, rest, ev>>

mt_rr_remap ==
    /\ impl = "test"
    /\ \E addr \in TestAddrs :
         remap' = Accessed(remap, addr, "rr", mt_remap(Entered(remap), addr))
    /\ UNCHANGED <<ctl, lpctl, wfsys, glo, ringreg, rest, ev>>

mt_wr_remap ==
    /\ impl = "test"
    /\ \E addr \in TestAddrs :
         remap' = Accessed(remap, addr, "wr", mt_remap(Entered(remap), addr))
    /\ UNCHANGED <<ctl, lpctl, wfsys, glo, ringreg, rest, ev>>

NextRemap ==
    \/ mt7927_rr
    \/ mt7927_wr
    \/ readl_writel
    \/ irq_context_access
    \/ mt_rr_remap
    \/ mt_wr_remap

SpecRemap == InitRemap /\ [][NextRemap]_vars

(***************************************************************************)
(* Properties.                                                             *)
(***************************************************************************)

(* C1: the bring-up phases happen in order.  The subsystem reset starts only after the *)
(* power-ownership handshake has finished, a ring base/count/index register is written *)
(* only after the reset has finished, and a firmware-download submission is made only   *)
(* after DMA ring initialisation has returned success.                                  *)
C1_BringUpOrder ==
    /\ "rst_start" \in ev => "hs_done" \in ev
    /\ "ring_wr" \in ev => "rst_done" \in ev
    /\ "submit" \in ev => "dma_ok" \in ev

(* Both programs get as far as a firmware-download submission. *)
C1_Witness == {"hs_done", "rst_start", "rst_done", "ring_wr", "dma_ok", "submit"} \subseteq ev

(* C2: during DMA ring initialisation, from any initial value of the global            *)
(* configuration register, every ring's base/count/index is written with the DMA-      *)
(* enable bits off and the clock-gating-disable bit not yet set, its extended-control   *)
(* register is written after them, and the DMA-enable bits are not set without the      *)
(* clock-gating-disable bit.                                                            *)
C2_RingInitOrder ==
    ev \cap {"cfg_with_en", "cfg_with_clk", "cfg_after_ext", "ext_after_clk", "en_without_clk"} = {}

(* C3: once the host has written the global configuration register, a set TX_DMA_EN    *)
(* (RX_DMA_EN) means every TX (RX) ring has a non-zero base address.                    *)
C3_EnabledRingsHaveBase ==
    "glo_wr" \in ev =>
        /\ TX_DMA_EN \in glo => \A r \in TxRings : ringreg[r].base # 0
        /\ RX_DMA_EN \in glo => \A r \in RxRings : ringreg[r].base # 0

(* Indexes of ring r the engine has still to fetch: DIDX up to, not including, CIDX. *)
Pending(r) ==
    IF ringreg[r].cnt = 0 THEN {}
    ELSE {k \in 0..(ringreg[r].cnt - 1) :
            (k - ringreg[r].didx) % ringreg[r].cnt
              < (ringreg[r].cidx - ringreg[r].didx) % ringreg[r].cnt}

(* Buffers referenced by descriptors of ring r that the engine has still to fetch. *)
PendingBufs(r) ==
    IF ringreg[r].base = 0 THEN {}
    ELSE {descs[QueueAt(ringreg[r].base)][k].buf0 : k \in Pending(r) \cap DescIdx}

(* C4: while TX DMA is enabled, no buffer referenced by a descriptor the engine has     *)
(* still to fetch has been freed or unmapped.                                           *)
C4_NoFreeWhilePending ==
    TX_DMA_EN \in glo => \A r \in TxRings : PendingBufs(r) \cap freed = {}

(* A buffer still referenced by an unfetched descriptor has been freed (after the disable). *)
C4_Witness == \E r \in TxRings : PendingBufs(r) \cap freed # {}

(***************************************************************************)
(* C5: for every RAM image with sections s1..sn of lengths L1..Ln and      *)
(* chunk size C, the RAM load issues exactly n init-download commands and  *)
(* the sum of ceil(Li/C) chunk sends, section by section: when the RAM     *)
(* load has returned success, what it submitted is, per section in order,  *)
(* one init-download command followed by that section's chunks.            *)
(***************************************************************************)
ChunkSize == IF impl = "driver" THEN MT7927_FW_CHUNK_SIZE ELSE FW_CHUNK_SIZE

CeilDiv(a, b) == (a + b - 1) \div b

SendKind(e) ==
    IF e.cmd \in {"TARGET_ADDRESS_LEN_REQ", "PATCH_START_REQ"} THEN "init"
    ELSE IF e.cmd = "data" THEN "chunk"
    ELSE "other"

RECURSIVE ExpectedRamSends(_)
ExpectedRamSends(img) ==
    IF img = <<>> THEN <<>>
    ELSE <<"init">> \o [k \in 1..CeilDiv(Head(img).len, ChunkSize) |-> "chunk"]
                    \o ExpectedRamSends(Tail(img))

RamSends == [k \in 1..(Len(sent) - fw.mark) |-> SendKind(sent[fw.mark + k])]

RamLoadReturned ==
    /\ pc \in {"load_firmware_finish", "mt7927_load_firmware_loaded"}
    /\ ret = "OK"

C5_RamLoadSequence == RamLoadReturned => RamSends = ExpectedRamSends(fw.ram)

(***************************************************************************)
(* C6: the firmware download never submits a start-firmware command, and   *)
(* a download that has finished has set the software-init-done bit.        *)
(***************************************************************************)
C6_NoStartFirmware ==
    /\ \A k \in 1..Len(sent) : sent[k].cmd # "START_FIRMWARE"
    /\ "fw_done" \in ev => wfsys.sw_init_done

(***************************************************************************)
(* C7: a completion timeout during the firmware download is only logged:   *)
(* no send returns a timeout error and the bring-up does not fail after    *)
(* one.                                                                    *)
(***************************************************************************)
C7_TimeoutNotFatal ==
    ev \cap {"poll_timeout", "resp_timeout"} # {} => ret # "ETIMEDOUT" /\ pc # "failed"

(***************************************************************************)
(* C8: with hardware that sets DIDX to CIDX at the doorbell write, every   *)
(* submission of send_mcu_cmd and send_fw_chunk is seen complete by its    *)
(* poll, returns success and ends with head equal to DIDX, whatever the    *)
(* number of earlier submissions on the ring.                              *)
(***************************************************************************)
SentOn(n) == Cardinality({k \in 1..Len(sent) : sent[k].ring = n})

C8_ImmediateCompletion ==
    impl = "test" /\ hwmode = "immediate" =>
        /\ "poll_timeout" \notin ev
        /\ pc \in {"send_mcu_cmd_poll", "send_mcu_cmd_clean"} =>
               ringreg[<<"tx", 15>>].didx = q["mcu_ring"].head
        /\ pc \in {"send_fw_chunk_poll", "send_fw_chunk_clean"} =>
               ringreg[<<"tx", 16>>].didx = q["fwdl_ring"].head
        /\ pc \in {"load_patch_chunks", "load_patch_return", "load_ram_chunks"} =>
               /\ ret = "OK"
               /\ ringreg[<<"tx", 15>>].didx = q["mcu_ring"].head
               /\ ringreg[<<"tx", 16>>].didx = q["fwdl_ring"].head

C8_Witness ==
    /\ impl = "test"
    /\ hwmode = "immediate"
    /\ pc = "load_ram_chunks"
    /\ SentOn(16) > NDesc
    /\ SentOn(15) > NDesc
    /\ q["fwdl_ring"].head = ringreg[<<"tx", 16>>].didx

(***************************************************************************)
(* C9: immediately after a TX descriptor ring has been allocated, every    *)
(* descriptor of it has DMA_DONE set and every other field zero.           *)
(***************************************************************************)
FreshTxRing(qn) ==
    \A k \in DescIdx : descs'[qn][k] = [mt7927_desc EXCEPT !.done = TRUE]

C9_FreshRingDone ==
    [][\A qn \in QNames \ DriverRxQ :
          q[qn].desc # "live" /\ q'[qn].desc = "live" => FreshTxRing(qn)]_vars

(***************************************************************************)
(* C10: for every logical address outside the direct range and outside     *)
(* every fixed-map window, after a translated access MT_HIF_REMAP_L1 and   *)
(* MT_HIF_REMAP_L2 hold the values they held before the call, whatever     *)
(* those values were.                                                      *)
(***************************************************************************)
DynamicAddr(addr) == addr[1] >= 32 /\ FixedMapHits(addr) = {}

C10_RemapRestored ==
    remap.op # "none" /\ DynamicAddr(remap.acc) =>
        remap.l1 = remap.pre_l1 /\ remap.l2 = remap.pre_l2

(***************************************************************************)
(* C11: for every logical address inside a window of the fixed map, in     *)
(* every reachable state of the translator, mt7927_reg_addr returns the    *)
(* window's mapped offset plus the distance from its logical base, and the *)
(* call neither reads nor writes MT_HIF_REMAP_L1 or MT_HIF_REMAP_L2.       *)
(***************************************************************************)
FixedAccess ==
    /\ impl = "driver"
    /\ remap.op # "none"
    /\ remap.acc[1] >= 32
    /\ FixedMapHits(remap.acc) # {}

C11_FixedMapUntouched ==
    FixedAccess =>
        /\ \A k \in FixedMapHits(remap.acc) :
              remap.bar = Add32(mt7927_fixed_map[k].maps,
                                Sub32(remap.acc, mt7927_fixed_map[k].phys))
        /\ ~remap.touched
        /\ remap.l1 = remap.pre_l1
        /\ remap.l2 = remap.pre_l2

(***************************************************************************)
(* C12: when the ownership status bit reads driver-owned and the chip does *)
(* not change it, claiming for the driver succeeds at the first read of    *)
(* the bit, on every call, and leaves the bit driver-owned: a step of      *)
(* mt7927_mcu_drv_pmctrl or of the poll of drv_pmctrl that finds OWN_SYNC  *)
(* clear returns success at once and does not change it.                   *)
(***************************************************************************)
ClaimReadsOwned ==
    /\ pc \in {"mt7927_mcu_drv_pmctrl", "mt7927_mcu_drv_pmctrl_poll", "drv_pmctrl_poll"}
    /\ ~lpctl.own_sync
    /\ ctl' # ctl

C12_ClaimIdempotent ==
    [][ClaimReadsOwned =>
          /\ pc' = Head(stack)
          /\ stack' = Tail(stack)
          /\ ret' = "OK"
          /\ ~lpctl'.own_sync]_vars

(* The repeated call of the bring-up has returned success with the bit clear and *)
(* the chip has not acted since: CLR_OWN still pending (test module), or nothing *)
(* requested (driver, in mt7927_mcu_init).                                       *)
C12_Witness ==
    /\ ~lpctl.own_sync
    /\ ret = "OK"
    /\ \/ impl = "test" /\ pc = "probe" /\ phase = 6 /\ lpctl.req = "clr"
       \/ impl = "driver" /\ pc = "mt7927_mcu_init_regs" /\ lpctl.req = "none"

(***************************************************************************)
(* C13: when mt7927_irq_tasklet reads 0 from the interrupt-status register *)
(* it still writes 0 back as the acknowledge and calls neither             *)
(* mt7927_tx_complete nor mt7927_rx_poll on any queue.                     *)
(***************************************************************************)
C13_ZeroStatusAckOnly ==
    irq.rd = <<{}>> => irq.ack = <<{}>> /\ irq.ran = {}

C13_Witness == irq.rd = <<{}>> /\ irq.ack = <<{}>> /\ ~irq.sched

(***************************************************************************)
(* C14: configuring the rings and then enabling the TX direction leaves    *)
(* RX_DMA_EN of MT_WFDMA0_GLO_CFG as it was before ring configuration      *)
(* started, whatever its value was: when DMA initialisation has returned   *)
(* success the bit is set exactly if it was set on entry.                  *)
(***************************************************************************)
DmaInitReturned ==
    /\ pc = "probe"
    /\ phase > 0
    /\ ProbeSteps[phase] \in {"setup_dma_ring", "mt7927_dma_init"}
    /\ ret = "OK"

C14_RxEnableUntouched ==
    DmaInitReturned => (RX_DMA_EN \in glo <=> "rx_on_before" \in ev)

(***************************************************************************)
(* C15: at the step that asserts the subsystem reset the ownership status  *)
(* bit OWN_SYNC reads driver-owned and no ring register has been written   *)
(* yet, for every behaviour of the hardware.                               *)
(***************************************************************************)
ResetAsserted ==
    \/ pc = "mt7927_wfsys_reset" /\ pc' = "mt7927_wfsys_reset_deassert"
    \/ pc = "wfsys_reset_wf" /\ i = 0 /\ i' = 1

C15_ResetWhenDriverOwns ==
    [][ResetAsserted => ~lpctl.own_sync /\ "ring_wr" \notin ev]_vars

(***************************************************************************)
(* C16: during one bring-up the give-to-firmware handshake is executed     *)
(* exactly once and the claim-for-driver handshake exactly once, the give  *)
(* before the claim: a give starts only when no give and no claim has      *)
(* happened, a claim starts only after the give and when no claim has      *)
(* returned, and both have happened when the firmware step starts.         *)
(***************************************************************************)
GiveExecuted == pc \in {"fw_pmctrl", "mt7927_mcu_fw_pmctrl"} /\ pc' # pc

ClaimExecuted == pc \in {"drv_pmctrl", "mt7927_mcu_drv_pmctrl"} /\ pc' # pc

FirmwareStepStarts ==
    pc = "probe" /\ pc' \in {"load_firmware", "mt7927_mcu_init"}

C16_HandshakeOnce ==
    [][/\ GiveExecuted => "gave" \notin ev /\ "hs_done" \notin ev
       /\ ClaimExecuted => "gave" \in ev /\ "hs_done" \notin ev
       /\ FirmwareStepStarts => "gave" \in ev /\ "hs_done" \in ev]_vars

(***************************************************************************)
(* C17: when the register read made after device enable returned           *)
(* 0xffffffff, the probe function starts no further step: no power         *)
(* handshake, reset, DMA or firmware step follows the read.                *)
(***************************************************************************)
StepStarts == pc = "probe" /\ pc' \in {ProbeSteps[k] : k \in 1..Len(ProbeSteps)}

C17_AllOnesAborts ==
    [][StepStarts => "all_ones" \notin ev]_vars

(***************************************************************************)
(* C18: a timeout of the ownership handshake, in either direction, or of   *)
(* the subsystem reset does not abort the bring-up: the probe function     *)
(* goes on with the step that follows.                                     *)
(***************************************************************************)
HandshakeSteps ==
    {"mt7927_mcu_fw_pmctrl", "mt7927_mcu_drv_pmctrl", "mt7927_wfsys_reset",
     "fw_pmctrl", "drv_pmctrl", "wfsys_reset"}

TimedOutStep ==
    /\ pc = "probe"
    /\ phase > 0
    /\ ProbeSteps[phase] \in HandshakeSteps
    /\ ret = "ETIMEDOUT"

C18_TimeoutContinues ==
    [][TimedOutStep /\ pc' # pc =>
          /\ phase < Len(ProbeSteps)
          /\ phase' = phase + 1
          /\ pc' = ProbeSteps[phase + 1]]_vars

C18_Witness ==
    /\ ret = "ETIMEDOUT"
    /\ phase > 1
    /\ ProbeSteps[phase - 1] \in HandshakeSteps
    /\ pc = ProbeSteps[phase]
    /\ pc \in {"request_irq", "drv_pmctrl", "mt7927_mcu_drv_pmctrl"}

(***************************************************************************)
(* C19: when an allocation of DMA memory fails during DMA initialisation   *)
(* the bring-up stops with the error, no firmware-download step is         *)
(* executed, and when the probe function has returned no DMA allocation    *)
(* made before the failure is still held.                                  *)
(***************************************************************************)
DmaAllocFailed ==
    /\ phase > 0
    /\ ProbeSteps[phase] \in {"setup_dma_ring", "mt7927_dma_init"}
    /\ ret = "ENOMEM"

C19_AllocFailureReleases ==
    DmaAllocFailed =>
        /\ pc \in {"mt7927_dma_cleanup", "free_irq", "probe", "failed"}
        /\ "submit" \notin ev
        /\ pc = "failed" => /\ \A qn \in QNames : q[qn].desc # "live"
                            /\ dma_buf # "live"

(***************************************************************************)
(* C20: every firmware chunk submitted on the data ring carries at most    *)
(* 4096 bytes of firmware, and every descriptor filled on the data ring    *)
(* has the last-segment flag set.                                          *)
(***************************************************************************)
ChunkBytes(e) == IF impl = "driver" THEN e.len - sizeof_mt7927_mcu_txd ELSE e.len

DataQueue == IF impl = "driver" THEN MT_MCUQ_FWDL ELSE "fwdl_ring"

C20_ChunkAtMost4K ==
    /\ \A k \in 1..Len(sent) : sent[k].cmd = "data" => ChunkBytes(sent[k]) <= 4096
    /\ \A k \in DescIdx : descs[DataQueue][k].len > 0 => descs[DataQueue][k].last

(***************************************************************************)
(* C21: every typed MCU command goes out with the command header on the    *)
(* command ring, never on the data ring, and every submission on the data  *)
(* ring is raw firmware bytes with no header.                              *)
(***************************************************************************)
CommandRing == IF impl = "driver" THEN DriverRing(MT_MCUQ_WM)[2] ELSE 15

DataRing == IF impl = "driver" THEN DriverRing(MT_MCUQ_FWDL)[2] ELSE 16

C21_RingRoles ==
    \A k \in 1..Len(sent) :
        /\ sent[k].cmd # "data" => sent[k].ring = CommandRing /\ sent[k].hdr > 0
        /\ sent[k].ring = DataRing => sent[k].cmd = "data" /\ sent[k].hdr = 0

(***************************************************************************)
(* C22: the patch load sends the initialise-download command of the        *)
(* image's single section, then all chunks of that section, then exactly   *)
(* one patch-finished command: when a patch-finished command has been      *)
(* sent there is one of them, and what was sent before it, semaphore       *)
(* commands aside, is the init command followed by the section's chunks.   *)
(***************************************************************************)
PatchFinishes == {k \in 1..Len(sent) : sent[k].cmd = "PATCH_FINISH_REQ"}

NotSemaphore(e) == e.cmd # "PATCH_SEM_CONTROL"

PatchSends ==
    LET f == CHOOSE k \in PatchFinishes : TRUE
        before == SelectSeq(SubSeq(sent, 1, f - 1), NotSemaphore)
    IN [k \in 1..Len(before) |-> SendKind(before[k])]

C22_PatchSequence ==
    PatchFinishes # {} =>
        /\ Cardinality(PatchFinishes) = 1
        /\ PatchSends = ExpectedRamSends(<<fw.patch[1]>>)

(***************************************************************************)
(* C23: a descriptor ring is allocated only by DMA initialisation and      *)
(* freed only by teardown or by a failed initialisation, and whenever a    *)
(* ring is allocated or freed TX_DMA_EN and RX_DMA_EN of GLO_CFG are both  *)
(* clear.                                                                  *)
(***************************************************************************)
RingAllocated == \E qn \in QNames : q[qn].desc # "live" /\ q'[qn].desc = "live"

RingFreed == \E qn \in QNames : q[qn].desc = "live" /\ q'[qn].desc # "live"

C23_RingLifetime ==
    [][/\ RingAllocated => pc \in {"mt7927_queue_alloc", "setup_dma_ring"}
       /\ RingFreed => pc \in {"mt7927_dma_cleanup", "mt7927_queue_alloc", "bound"}
       /\ RingAllocated \/ RingFreed => glo' \cap GloEn = {}]_vars

(***************************************************************************)
(* C24: one ownership handshake is in flight at a time, at every pace of   *)
(* the hardware: the claim is not started while a SET_OWN request is still *)
(* unanswered, and after the claim has returned success OWN_SYNC does not  *)
(* go back to firmware-owned (the bring-up gives ownership away only       *)
(* before its first claim).                                                *)
(***************************************************************************)
ClaimSucceeded ==
    /\ ret = "OK"
    /\ \/ pc = "probe" /\ phase > 0
          /\ ProbeSteps[phase] \in {"drv_pmctrl", "mt7927_mcu_drv_pmctrl"}
       \/ pc = "mt7927_mcu_init_regs"

C24_OneHandshakeInFlight ==
    /\ [][ClaimExecuted => lpctl.req # "set"]_vars
    /\ [](ClaimSucceeded => [](~lpctl.own_sync))

(***************************************************************************)
(* C25: the top half masks the interrupts and schedules the tasklet        *)
(* exactly when the status register reads non-zero, every run of the       *)
(* tasklet ends with the interrupt mask re-enabled, and so whenever the    *)
(* top half has masked the interrupts the mask is eventually re-enabled.   *)
(***************************************************************************)
TopHalfMasked == irq.live /\ irq.sched /\ ~irq.ena

C25_MaskReenabled ==
    /\ [][irq'.sched /\ ~irq.sched => irq.sta # {} /\ ~irq'.ena]_vars
    /\ [][irq.sched /\ ~irq'.sched /\ irq'.live => irq'.ena]_vars
    /\ TopHalfMasked ~> irq.ena

(***************************************************************************)
(* C26: when the tasklet runs, every allocated ring whose completion bit   *)
(* is set in the status it reads gets its completion handler called, so a  *)
(* submitted buffer whose descriptor the hardware has marked done is       *)
(* eventually unmapped and freed.                                          *)
(***************************************************************************)
TaskletRuns == irq.sched /\ ~irq'.sched /\ irq'.live

CompletionBit(qn) ==
    <<IF qn \in DriverTxQ THEN "tx_done" ELSE "rx_done", DriverRing(qn)[2]>>

DoneBuffers ==
    {<<qn, k>> \in DriverTxQ \X DescIdx :
        q[qn].desc = "live" /\ q[qn].skb[k] # 0 /\ descs[qn][k].done}

C26_CompletionDispatched ==
    /\ [][TaskletRuns =>
            \A qn \in DriverTxQ \cup DriverRxQ :
                q[qn].desc = "live" /\ CompletionBit(qn) \in irq.sta
                    => qn \in mt7927_irq_dispatch(irq.sta)]_vars
    /\ \A b \in DriverTxQ \X DescIdx : (b \in DoneBuffers) ~> (b \notin DoneBuffers)
(***************************************************************************)
(* C27: remap accesses never interleave.  Between the remap-control write  *)
(* of a translated access and the readl/writel that completes it, no       *)
(* interrupt-context register access reads or writes a remap-control       *)
(* register or goes through the remap aperture.                            *)
(***************************************************************************)
C27_RemapNotInterleaved == ~remap.mixed

C27_Witness ==
    /\ remap.inflight /\ remap.win
    /\ remap.op \in {"irq_rr", "irq_wr"}
    /\ remap.l1 # remap.pre_l1 \/ remap.backup_l1 # Zero32 \/ remap.backup_l2 # Zero32

(***************************************************************************)
(* C29: in every dynamically remapped access, each write of a new window   *)
(* value to a remap-control register is followed by a read-back of that    *)
(* same register, with no access through the aperture in between.          *)
(***************************************************************************)
ReadBack(w) == IF w = "wr_l1" THEN "rd_l1" ELSE "rd_l2"

WindowWrites == {k \in 1..Len(remap.io) : remap.io[k] \in {"wr_l1", "wr_l2"}}

C29_WindowReadBack ==
    \A k \in WindowWrites :
        \E j \in (k + 1)..Len(remap.io) :
            /\ remap.io[j] = ReadBack(remap.io[k])
            /\ \A m \in k..j : remap.io[m] # "access"

(***************************************************************************)
(* C28: every submission writes all fields of the descriptor at index head *)
(* before it writes the doorbell; the new head is (old head + 1) modulo    *)
(* the ring size, and the value written to the ring's producer-index       *)
(* register equals the new head.                                           *)
(***************************************************************************)
Submits == Len(sent') = Len(sent) + 1

SubmitQueue(e) ==
    IF impl = "test"
      THEN IF e.ring = 15 THEN "mcu_ring" ELSE "fwdl_ring"
      ELSE CHOOSE qn \in {"tx_q0", "tx_q1", "tx_q2"} : DriverRing(qn)[2] = e.ring

C28_DescriptorBeforeDoorbell ==
    /\ [](\A k \in 1..Len(sent) : sent[k].whole)
    /\ [][Submits =>
            LET e == sent'[Len(sent')]
                qn == SubmitQueue(e)
            IN  /\ q'[qn].head = (q[qn].head + 1) % NDesc
                /\ ringreg'[<<"tx", e.ring>>].cidx = q'[qn].head
                /\ descs'[qn][q[qn].head].buf0 # 0
                /\ descs'[qn][q[qn].head].len = e.len
                /\ descs'[qn][q[qn].head].last]_vars

C28_Witness ==
    /\ Len(sent) >= NDesc
    /\ sent[Len(sent)].whole
    /\ q[SubmitQueue(sent[Len(sent)])].head = 0
    /\ ringreg[<<"tx", sent[Len(sent)].ring>>].cidx = 0
    /\ pc \in {"send_fw_chunk_poll", "send_mcu_cmd_poll"}

(***************************************************************************)
(* C30: every wait performed during bring-up is a poll loop with a bounded *)
(* number of iterations and none blocks on a wakeup: a wait gives up only  *)
(* when its iteration count is used up.  So the whole bring-up terminates  *)
(* for every hardware behaviour.                                           *)
(***************************************************************************)
WaitGivesUp ==
    \/ ret' = "ETIMEDOUT" /\ ret # "ETIMEDOUT" /\ fw.err # "ETIMEDOUT"
    \/ "poll_timeout" \in ev' \ ev

PollUsedUp == i + 1 >= PollCap

BringUpReturned == pc \in {"bound", "failed", "removed"}

C30_BoundedPolls ==
    /\ [][WaitGivesUp => PollUsedUp]_vars
    /\ <>BringUpReturned

(***************************************************************************)
(* C31: mt7927_wfsys_reset clears the enable bit before it sets it again,  *)
(* then polls init-done at most 50 times; it returns success at the first  *)
(* poll that reads init-done set, and a timeout error exactly when none of *)
(* the polls reads it set.                                                 *)
(***************************************************************************)
ResetPolls == pc = "mt7927_wfsys_reset_poll"

BarSize == <<32, 0>>                         \* 0x200000

C32_OffsetInsideBar == remap.op # "none" => Lt32(remap.bar, BarSize)

(***************************************************************************)
(* C33: in the polling download path the driver's producer index and the   *)
(* hardware ring pointers stay consistent: whenever a ring's hardware DMA  *)
(* pointer is reset, the driver's head for that ring is reset too, so the  *)
(* producer-index register and the head agree after every step.           *)
(***************************************************************************)
PollingRings == {[r |-> <<"tx", 15>>, qn |-> "mcu_ring"], [r |-> <<"tx", 16>>, qn |-> "fwdl_ring"]}

PointerReset(r) ==
    /\ ringreg[r].cidx # 0
    /\ ringreg'[r].cidx = 0
    /\ ringreg'[r].didx = 0
    /\ sent' = sent

C33_HeadFollowsReset ==
    [][impl = "test" =>
         \A x \in PollingRings :
             PointerReset(x.r) => q'[x.qn].head = 0 /\ ringreg'[x.r].cidx = q'[x.qn].head]_vars

(***************************************************************************)
(* C34: the scratch DMA buffer shared by ring 15 and ring 16 is overwritten *)
(* with the next command or chunk only when no descriptor of either ring   *)
(* that the engine has not consumed yet still points at it, whatever the   *)
(* pace of the hardware.  A descriptor points at the buffer once a submit  *)
(* path has filled it; the engine marks the ones it has consumed with the  *)
(* DMA_DONE write-back.                                                    *)
(***************************************************************************)
ScratchOverwritten == impl = "test" /\ Len(sent') = Len(sent) + 1

ReferencesScratch(x, k) ==
    /\ descs[x.qn][k].buf0 = dma_buf_phys
    /\ ~descs[x.qn][k].done
    /\ MT_WFDMA0_GLO_CFG_TX_WB_DDONE \in glo

C34_ScratchFreeWhenOverwritten ==
    [][ScratchOverwritten =>
         \A x \in PollingRings : \A k \in DescIdx : ~ReferencesScratch(x, k)]_vars

(***************************************************************************)
(* The TX queue operations on their own: the queues as mt7927_dma_init and *)
(* mt7927_dma_enable leave them, then any sequence of submissions through  *)
(* mt7927_mcu_send_and_get_msg and mt7927_mcu_send_firmware, descriptor    *)
(* fetches and answers by the chip, interrupts, and mt7927_tx_complete     *)
(* calls.                                                                  *)
(***************************************************************************)
MaxCalls == 4

InitTxq ==
    /\ impl = "driver"
    /\ hwmode = "async"
    /\ lpctl = [own_sync |-> FALSE, req |-> "set"]
    /\ wfsys = [en |-> TRUE, init_done |-> TRUE, sw_init_done |-> FALSE]
    /\ remap = RemapRegs(Zero32, Zero32)
    /\ pc = "tx_idle"
    /\ stack = <<>>
    /\ phase = 0
    /\ ret = "OK"
    /\ i = 0
    /\ LET plan == <<"tx_q0", "tx_q1", "tx_q2", "rx_q0", "rx_q2">>
           live == {plan[n] : n \in DOMAIN plan}
           t == HwWrites([glo |-> {}, cfgd |-> {}, extd |-> {}, ev |-> {},
                          ringreg |-> [r \in HwRings |-> mt7927_desc_ring_regs]],
                         [n \in DOMAIN plan |-> RingCfg(DriverRing(plan[n]), desc_dma(plan[n]), NDesc)]
                           \o mt7927_dma_prefetch
                           \o <<RstPtr(HwRings), GloCfg(mt7927_dma_enable_bits)>>)
       IN /\ glo = t.glo
          /\ ringreg = t.ringreg
          /\ cfgd = t.cfgd
          /\ extd = t.extd
          /\ ev = t.ev \cup {"dma_ok"}
          /\ q = [qn \in QNames |->
                    IF qn \in live THEN [mt7927_queue EXCEPT !.desc = "live"] ELSE mt7927_queue]
          /\ descs = [qn \in QNames |->
                        IF qn \in live THEN mt7927_queue_alloc_descs(qn)
                        ELSE [k \in DescIdx |-> mt7927_desc]]
    /\ dma_buf = "null"
    /\ freed = {}
    /\ fw = [patch |-> <<>>, ram |-> <<>>, sec |-> 0, left |-> 0, cmd |-> "none", len |-> 0,
             wait |-> FALSE, err |-> "OK", mark |-> 0]
    /\ mcu = [seq |-> 0, wseq |-> 0, resp |-> 0, res_q |-> <<>>, pend |-> <<>>,
              rx |-> [k \in DescIdx |-> [seq |-> 0, st |-> 0]]]
    /\ irq = [live |-> TRUE, sched |-> FALSE, ena |-> TRUE, sta |-> {},
              rd |-> <<>>, ack |-> <<>>, ran |-> {}]
    /\ sent = <<>>

(* A caller of the MCU layer: one command, waiting for the answer or not, or one *)
(* full firmware chunk; i counts the calls made.                                 *)
mt7927_mcu_send_msg ==
    /\ pc = "tx_idle"
    /\ i < MaxCalls
    /\ \E f \in {"mt7927_mcu_send_and_get_msg", "mt7927_mcu_send_firmware"} :
         \E wait_resp \in IF f = "mt7927_mcu_send_firmware" THEN {FALSE} ELSE BOOLEAN :
           /\ fw' = [fw EXCEPT !.cmd = IF f = "mt7927_mcu_send_firmware" THEN "FW_SCATTER"
                                                                        ELSE "PATCH_FINISH_REQ",
                               !.len = IF f = "mt7927_mcu_send_firmware"
                                         THEN MT7927_FW_CHUNK_SIZE ELSE 8,
                               !.wait = wait_resp]
           /\ pc' = f
    /\ i' = i + 1
    /\ stack' = <<"tx_idle">>
    /\ UNCHANGED <<env, phase, ret, lpctl, wfsys, glo, ringreg, remap, q, descs, dma_buf,
                   freed, mcu, irq, sent, cfgd, extd, ev>>

(* One call of mt7927_tx_complete on a TX queue, as the bottom half makes it. *)
mt7927_tx_complete_call ==
    /\ \E qn \in DriverTxQ :
         /\ q[qn].desc = "live"
         /\ LET t == mt7927_tx_complete([q |-> q, descs |-> descs, freed |-> freed], qn)
            IN  q' = t.q /\ descs' = t.descs /\ freed' = t.freed
    /\ UNCHANGED <<ctl, lpctl, wfsys, glo, ringreg, remap, dma_buf, fw, mcu, irq, sent,
                   cfgd, extd, ev>>

NextTxq ==
    \/ mt7927_mcu_send_msg
    \/ mt7927_mcu_send_and_get_msg
    \/ mt7927_mcu_send_firmware
    \/ mt7927_mcu_wait
    \/ HwTxConsume
    \/ HwMcuResponse
    \/ mt7927_irq_handler
    \/ mt7927_irq_tasklet
    \/ mt7927_tx_complete_call

SpecTxq == InitTxq /\ [][NextTxq]_vars

(***************************************************************************)
(* C35: for every sequence of mt7927_tx_queue_skb and mt7927_tx_complete   *)
(* calls on a driver TX queue, head and tail stay in 0..ndesc-1, at most   *)
(* ndesc-1 descriptors are outstanding, and slot i holds a submitted       *)
(* buffer exactly when i lies in the cyclic range from tail up to, not     *)
(* including, head; mt7927_tx_queue_skb returns -ENOSPC and changes        *)
(* nothing exactly when (head+1) mod ndesc = tail; mt7927_tx_complete      *)
(* moves tail only over outstanding descriptors that carry the done bit.   *)
(***************************************************************************)
Outstanding(qn) == (q[qn].head + NDesc - q[qn].tail) % NDesc

InFlight(qn, k) == (k + NDesc - q[qn].tail) % NDesc < Outstanding(qn)

SubmitTarget ==
    IF pc = "mt7927_mcu_send_firmware" \/ fw.cmd = "FW_SCATTER" THEN MT_MCUQ_FWDL ELSE MT_MCUQ_WM

SubmitCall ==
    /\ impl = "driver"
    /\ pc \in {"mt7927_mcu_send_and_get_msg", "mt7927_mcu_send_firmware"}
    /\ pc' # pc
    /\ q[SubmitTarget].desc = "live"

Refused == ret' = "ENOSPC" /\ pc' # "mt7927_mcu_wait"

C35_TxQueueIndices ==
    /\ [](\A qn \in DriverTxQ :
            /\ q[qn].head \in DescIdx
            /\ q[qn].tail \in DescIdx
            /\ Outstanding(qn) <= NDesc - 1
            /\ \A k \in DescIdx : q[qn].skb[k] # 0 <=> InFlight(qn, k))
    /\ [][/\ SubmitCall =>
               /\ Refused <=> (q[SubmitTarget].head + 1) % NDesc = q[SubmitTarget].tail
               /\ Refused => UNCHANGED <<q, descs, ringreg, sent, irq, freed>>
               /\ ~Refused => /\ q'[SubmitTarget].head = (q[SubmitTarget].head + 1) % NDesc
                              /\ q'[SubmitTarget].tail = q[SubmitTarget].tail
          /\ \A qn \in DriverTxQ :
               q[qn].desc = "live" /\ q'[qn].desc = "live" /\ q'[qn].tail # q[qn].tail =>
                 /\ q'[qn].head = q[qn].head
                 /\ (q'[qn].tail + NDesc - q[qn].tail) % NDesc <= Outstanding(qn)
                 /\ \A k \in DescIdx :
                      (k + NDesc - q[qn].tail) % NDesc < (q'[qn].tail + NDesc - q[qn].tail) % NDesc
                        => descs[qn][k].done /\ InFlight(qn, k)]_vars

C35_Witness ==
    /\ impl = "driver"
    /\ ret = "ENOSPC"
    /\ \E qn \in DriverTxQ :
         /\ q[qn].desc = "live"
         /\ (q[qn].head + 1) % NDesc = q[qn].tail
         /\ q[qn].tail # 0

(***************************************************************************)
(* C36: no descriptor ring, buffer array or DMA-address array is freed     *)
(* twice or read after being freed: the mt7927_dma_cleanup that            *)
(* mt7927_dma_init runs after a failed mt7927_queue_alloc never calls      *)
(* mt7927_queue_free on a queue whose descriptor ring the failed call has  *)
(* already released.                                                       *)
(***************************************************************************)
C36_NoDoubleFree ==
    /\ "double_free" \notin ev
    /\ pc = "mt7927_dma_cleanup" => \A qn \in DriverTxQ \cup DriverRxQ : q[qn].desc # "dangling"

(***************************************************************************)
(* C37: during device removal and on the probe error path, no run of the   *)
(* interrupt tasklet calls mt7927_tx_complete or mt7927_rx_poll on a queue *)
(* that mt7927_dma_cleanup has already freed, for every interleaving of    *)
(* the host thread with top halves and tasklet runs.                       *)
(***************************************************************************)
C37_NoCompletionAfterCleanup ==
    [][TaskletRuns => \A qn \in mt7927_irq_dispatch(irq.sta) : desc_dma(qn) \notin freed]_vars

(***************************************************************************)
(* C38: a waiting mt7927_mcu_send_and_get_msg returns success only with a  *)
(* response whose sequence number is the one placed in the request, and a  *)
(* command whose answer from the MCU is in the response queue succeeds     *)
(* even when answers to earlier commands, sent without waiting, are still  *)
(* in the queue ahead of it.                                               *)
(***************************************************************************)
WaitReturns == pc = "mt7927_mcu_wait" /\ pc' # pc

Answered == \E k \in 1..Len(mcu.res_q) : mcu.res_q[k].seq = mcu.wseq

C38_ResponseMatchesRequest ==
    [][WaitReturns =>
         /\ ret' = "OK" => mcu.res_q # <<>> /\ Head(mcu.res_q).seq = mcu.wseq
         /\ Answered => ret' = "OK"]_vars

(***************************************************************************)
(* Firmware blobs.  A blob is its size, the region count its header or     *)
(* trailer carries, and what the code finds where it reads the i-th        *)
(* section descriptor: the section's length and file offset.  A descriptor *)
(* read outside the blob finds arbitrary values of the same kind.  Sizes,  *)
(* offsets and lengths are 32-bit values <<high 16 bits, low 16 bits>>.    *)
(* Each parser yields its return value and the byte ranges [at, at + n) it *)
(* reads from the blob: descriptors, and payload handed to the send path.  *)
(***************************************************************************)
sizeof_mt7927_patch_hdr == 204
sizeof_mt7927_patch_sec == 64
sizeof_mt7927_fw_trailer == 36
sizeof_mt7927_fw_region == 72
sizeof_test_patch_hdr == 96
sizeof_test_fw_region == 40
MaxSecs == 2

U32(n) == <<n \div 65536, n % 65536>>

BlobRead(what, at, n) == [what |-> what, at |-> at, n |-> n]

(* mt7927_load_patch from section k on: offset, len and their sum are u32. *)
RECURSIVE mt7927_load_patch_secs(_, _, _, _)
mt7927_load_patch_secs(b, k, offset, reads) ==
    IF k > b.n_region
      THEN [ret |-> "OK", reads |-> reads]
      ELSE LET len == b.sec[k].len
               rd == reads \cup {BlobRead("descriptor",
                                          U32(sizeof_mt7927_patch_hdr + (k - 1) * sizeof_mt7927_patch_sec),
                                          U32(sizeof_mt7927_patch_sec))}
           IN  IF Lt32(b.size, Add32(offset, len))
                 THEN [ret |-> "EINVAL", reads |-> rd]
                 ELSE mt7927_load_patch_secs(b, k + 1, Add32(offset, len),
                        rd \cup Flag(len # Zero32, BlobRead("payload", offset, len)))

mt7927_load_patch_blob(b) ==
    IF Lt32(b.size, U32(sizeof_mt7927_patch_hdr))
      THEN [ret |-> "EINVAL", reads |-> {}]
      ELSE mt7927_load_patch_secs(b, 1,
             U32(sizeof_mt7927_patch_hdr + b.n_region * sizeof_mt7927_patch_sec),
             {BlobRead("header", Zero32, U32(sizeof_mt7927_patch_hdr))})

(* mt7927_load_ram from region k on.  The limit, the size less the trailer and *)
(* the region headers, is a size_t: when it wraps below zero no u32 sum        *)
(* exceeds it.  The pointer to the region headers uses its low 32 bits.        *)
RECURSIVE mt7927_load_ram_regions(_, _, _, _)
mt7927_load_ram_regions(b, k, offset, reads) ==
    IF k > b.n_region
      THEN [ret |-> "OK", reads |-> reads]
      ELSE LET len == b.sec[k].len
               hdrs == U32(sizeof_mt7927_fw_trailer + b.n_region * sizeof_mt7927_fw_region)
               wraps == Lt32(b.size, hdrs)
               limit == Sub32(b.size, hdrs)
               rd == reads \cup {BlobRead("descriptor",
                                          Add32(limit, U32((k - 1) * sizeof_mt7927_fw_region)),
                                          U32(sizeof_mt7927_fw_region))}
           IN  IF ~wraps /\ Lt32(limit, Add32(offset, len))
                 THEN [ret |-> "EINVAL", reads |-> rd]
                 ELSE mt7927_load_ram_regions(b, k + 1, Add32(offset, len),
                        rd \cup Flag(len # Zero32, BlobRead("payload", offset, len)))

mt7927_load_ram_blob(b) ==
    IF Lt32(b.size, U32(sizeof_mt7927_fw_trailer))
      THEN [ret |-> "EINVAL", reads |-> {}]
      ELSE mt7927_load_ram_regions(b, 1, Zero32,
             {BlobRead("trailer", Sub32(b.size, U32(sizeof_mt7927_fw_trailer)),
                       U32(sizeof_mt7927_fw_trailer))})

(* load_patch of the test module: the first section only, at the offset it names. *)
load_patch_blob(b) ==
    IF Lt32(b.size, U32(sizeof_test_patch_hdr))
      THEN [ret |-> "EINVAL", reads |-> {}]
      ELSE LET len == b.sec[1].len
               offset == b.sec[1].offs
               rd == {BlobRead("header", Zero32, U32(sizeof_test_patch_hdr)),
                      BlobRead("descriptor", U32(sizeof_test_patch_hdr),
                               U32(sizeof_mt7927_patch_sec))}
           IN  IF Lt32(b.size, Add32(offset, len))
                 THEN [ret |-> "EINVAL", reads |-> rd]
                 ELSE [ret |-> "OK",
                       reads |-> rd \cup Flag(len # Zero32, BlobRead("payload", offset, len))]

(* load_ram of the test module from region k on: no test against the size. *)
RECURSIVE load_ram_regions(_, _, _, _)
load_ram_regions(b, k, offset, reads) ==
    IF k > b.n_region
      THEN [ret |-> "OK", reads |-> reads]
      ELSE LET len == b.sec[k].len
               trailer == Sub32(b.size, U32(sizeof_mt7927_fw_trailer))
               region == Sub32(trailer, U32((b.n_region - (k - 1)) * sizeof_test_fw_region))
           IN  load_ram_regions(b, k + 1, Add32(offset, len),
                 reads \cup {BlobRead("descriptor", region, U32(sizeof_test_fw_region))}
                       \cup Flag(len # Zero32, BlobRead("payload", offset, len)))

load_ram_blob(b) ==
    IF Lt32(b.size, U32(sizeof_mt7927_fw_trailer))
      THEN [ret |-> "EINVAL", reads |-> {}]
      ELSE load_ram_regions(b, 1, Zero32,
             {BlobRead("trailer", Sub32(b.size, U32(sizeof_mt7927_fw_trailer)),
                       U32(sizeof_mt7927_fw_trailer))})

BlobSizes ==
    {U32(20), U32(sizeof_mt7927_fw_trailer), U32(sizeof_test_patch_hdr),
     U32(sizeof_mt7927_patch_hdr),
     U32(sizeof_test_patch_hdr + sizeof_mt7927_patch_sec + 32),
     U32(sizeof_mt7927_patch_hdr + sizeof_mt7927_patch_sec + 32),
     U32(sizeof_mt7927_fw_trailer + sizeof_test_fw_region + 32),
     U32(sizeof_mt7927_fw_trailer + sizeof_mt7927_fw_region + 32)}
BlobLens == {Zero32, U32(32), <<65535, 65520>>}
BlobOffs == {U32(sizeof_test_patch_hdr + sizeof_mt7927_patch_sec), <<65535, 65520>>}
Blobs ==
    [size : BlobSizes, n_region : 0..MaxSecs, sec : [1..MaxSecs -> [len : BlobLens, offs : BlobOffs]]]

(* The state when request_firmware has handed over a blob; fw.blob is the blob, *)
(* ev the ranges read from it.                                                  *)
InitBlob ==
    /\ impl \in {"driver", "test"}
    /\ hwmode = "async"
    /\ lpctl = [own_sync |-> FALSE, req |-> "none"]
    /\ wfsys = [en |-> TRUE, init_done |-> TRUE, sw_init_done |-> FALSE]
    /\ glo = {}
    /\ remap = RemapRegs(Zero32, Zero32)
    /\ pc = "request_firmware"
    /\ stack = <<>>
    /\ phase = 0
    /\ ret = "OK"
    /\ i = 0
    /\ ringreg = [r \in HwRings |-> mt7927_desc_ring_regs]
    /\ q = [qn \in QNames |-> mt7927_queue]
    /\ descs = [qn \in QNames |-> [k \in DescIdx |-> mt7927_desc]]
    /\ dma_buf = "null"
    /\ freed = {}
    /\ \E b \in Blobs : fw = [blob |-> b]
    /\ mcu = [seq |-> 0, wseq |-> 0, resp |-> 0, res_q |-> <<>>, pend |-> <<>>,
              rx |-> [k \in DescIdx |-> [seq |-> 0, st |-> 0]]]
    /\ irq = [live |-> FALSE, sched |-> FALSE, ena |-> FALSE, sta |-> {},
              rd |-> <<>>, ack |-> <<>>, ran |-> {}]
    /\ sent = <<>>
    /\ cfgd = {}
    /\ extd = {}
    /\ ev = {}

Parsed(kind, r) ==
    /\ pc = "request_firmware"
    /\ pc' = kind
    /\ ret' = r.ret
    /\ ev' = r.reads
    /\ UNCHANGED <<env, stack, phase, i, lpctl, wfsys, glo, ringreg, remap, rest, cfgd, extd>>

mt7927_load_patch_parse == impl = "driver" /\ Parsed("patch", mt7927_load_patch_blob(fw.blob))

mt7927_load_ram_parse == impl = "driver" /\ Parsed("ram", mt7927_load_ram_blob(fw.blob))

load_patch_parse == impl = "test" /\ Parsed("patch", load_patch_blob(fw.blob))

load_ram_parse == impl = "test" /\ Parsed("ram", load_ram_blob(fw.blob))

NextBlob ==
    \/ mt7927_load_patch_parse
    \/ mt7927_load_ram_parse
    \/ load_patch_parse
    \/ load_ram_parse

SpecBlob == InitBlob /\ [][NextBlob]_vars

(***************************************************************************)
(* C39: for every firmware blob, with 32-bit wrap-around arithmetic, the   *)
(* loaders read section descriptors and payload bytes only from inside the *)
(* blob, and a section that does not fit inside the blob is rejected with  *)
(* -EINVAL before any of its bytes are sent.                               *)
(***************************************************************************)
InsideBlob(r, size) == ~Lt32(size, r.at) /\ ~Lt32(Sub32(size, r.at), r.n)

C39_ReadsInsideBlob ==
    pc \in {"patch", "ram"} =>
      /\ \A r \in ev : r.what # "payload" => InsideBlob(r, fw.blob.size)
      /\ \A r \in ev : r.what = "payload" => InsideBlob(r, fw.blob.size)

(***************************************************************************)
(* The length fields of a driver submission of len bytes, header included. *)
(* 32-bit words are <<high 16 bits, low 16 bits>>.                         *)
(***************************************************************************)
MT_DMA_CTL_LAST_SEC0 == <<16384, 0>>      \* BIT(30)
MT_DMA_CTL_DMA_DONE == <<32768, 0>>       \* BIT(31)

RECURSIVE BitOr(_, _)
BitOr(a, b) ==
    IF a = 0 THEN b
    ELSE IF b = 0 THEN a
    ELSE 2 * BitOr(a \div 2, b \div 2) + (IF a % 2 = 1 \/ b % 2 = 1 THEN 1 ELSE 0)

(* desc->ctrl = cpu_to_le32(skb->len | MT_DMA_CTL_LAST_SEC0) *)
mt7927_desc_ctrl(len) ==
    <<BitOr((len \div 65536) % 65536, MT_DMA_CTL_LAST_SEC0[1]), len % 65536>>

(* FIELD_PREP(MT_TXD0_TX_BYTES, skb->len), MT_TXD0_TX_BYTES = GENMASK(15, 0) *)
mt7927_txd0_tx_bytes(len) == len % 65536

(* txd->len = cpu_to_le16(skb->len) *)
mt7927_txd_len(len) == len % 65536

SD_LEN0(ctrl) == ctrl[2]
SD_LEN1(ctrl) == ctrl[1] % 16384
LAST_SEC0(ctrl) == (ctrl[1] \div 16384) % 2 = 1
DMA_DONE(ctrl) == ctrl[1] \div 32768 = 1

(***************************************************************************)
(* C40: for every command or firmware chunk the driver submits, the length *)
(* in the descriptor control word, in the TX-bytes field of the header's   *)
(* first word and in the 16-bit header length field is the number of bytes *)
(* submitted: it fits its field, is not truncated and does not spill into  *)
(* the last-segment flag, the done flag or the neighbouring length field.  *)
(***************************************************************************)
C40_LengthFieldsExact ==
    impl = "driver" =>
      \A k \in 1..Len(sent) :
        LET len == sent[k].len
            ctrl == mt7927_desc_ctrl(len)
        IN  /\ SD_LEN0(ctrl) = len
            /\ SD_LEN1(ctrl) = 0
            /\ LAST_SEC0(ctrl)
            /\ ~DMA_DONE(ctrl)
            /\ mt7927_txd0_tx_bytes(len) = len
            /\ mt7927_txd_len(len) = len
====
